---- MODULE Spec2Model ----
(***************************************************************************)
(* Webhook ingestion and checkout workflow of the payment service:         *)
(* POST /webhook (routes/webhook.routes.ts), the event deduplication cache *)
(* (services/event-deduplication.service.ts), the event router and simple  *)
(* handlers (services/webhook.service.ts) and the Phoenix workflow         *)
(* (services/phoenix.service.ts).                                          *)
(*                                                                         *)
(* A webhook request is a task.  The synchronous prefix of the request     *)
(* (signature check, tryAcquire, dispatch up to the first await) is one    *)
(* step; afterwards every awaited Ledger / provider / provisioner call is  *)
(* one step, so handlers of concurrent requests interleave at the awaits   *)
(* exactly as they do on the single-threaded event loop.                   *)
(*                                                                         *)
(* Units: times are milliseconds; storage sizes are counted in MiB (the    *)
(* byte counts of the code exceed the 32-bit integers of TLC), so          *)
(* one GB is 1024 units and the base allotment 5 * 1024.                   *)
(***************************************************************************)
EXTENDS Integers, Sequences, FiniteSets, TLC

\* ---------------------------------------------------------------- bounds
MaxDeliveries == 3      \* webhook requests received in one run
MaxInFlight   == 2      \* handlers suspended at an await at the same time
MaxFaults     == 1      \* failing external calls (Ledger, provider, gateways)
MaxAdvances   == 1      \* clock jumps
MaxBurst      == 13     \* deliveries of a burst of distinct events
MaxGets       == 3      \* GET /auth/session requests received in one run

\* ---------------------------------------------------- program constants
EVENT_TTL_MS   == 86400000   \* 24 * 60 * 60 * 1000
MAX_CACHE_SIZE == 10         \* 10000 in the source, scaled; 10% of it is evicted
GB             == 1024       \* 1024 * 1024 * 1024 bytes, in MiB
BASE_GB        == 5          \* base allotment 5 * GB
baseStorageBytes == BASE_GB * GB
TOKEN_VALIDITY_MS == 600000  \* 10 * 60 * 1000: a staged entry older than this is dropped
TOKEN_GRACE_MS    == 120000  \* 2 * 60 * 1000: a read entry older than this is deleted

\* Clock jumps: one millisecond, exactly one TTL (a record of that age is
\* still live) and one millisecond more (it is expired).
Jumps == {1, EVENT_TTL_MS, EVENT_TTL_MS + 1}

\* ------------------------------------------------------------ identities
\* A user id is a UUID, kept as <<first 8 characters, rest>>.
NoUser == <<"", 0>>
ADMIN  == <<"a1b2c3d4", 1>>
CLIENT == <<"c5d6e7f8", 2>>
NewUserId(n) == <<"9e107d9d", n>>
\* clientId.substring(0, 8)
Prefix8(id) == id[1]

NoTime == -1
NoId   == 0

\* ------------------------------------------------- provider-side objects
\* JSON module list of the checkout metadata (modulesJson), already decoded.
NoModules == <<>>
OneProduction == <<[planId |-> "signature", planName |-> "Signature", priceCents |-> 10000, type |-> "production"]>>

TwoProduction ==
  <<[planId |-> "pack-a", planName |-> "Pack A", priceCents |-> 40000, type |-> "production"],
    [planId |-> "pack-b", planName |-> "Pack B", priceCents |-> 60000, type |-> "production"]>>

EmptyMetadata ==
  [type |-> "", case |-> "", pendingUserEmail |-> "", pendingUserFirstName |-> "",
   pendingUserHashedPassword |-> "", authMethod |-> "", webPlanId |-> "",
   productionPlanId |-> "", planId |-> "", planType |-> "", invoiceDescription |-> "",
   modulesJson |-> NoModules, moduleCount |-> "", clientId |-> NoUser,
   storagePlanId |-> "", storageGb |-> ""]

SessionIds == {"cs_new", "cs_old", "cs_sto", "cs_bad", "cs_a2", "cs_a3", "cs_b2", "cs_both",
               "cs_c", "cs_ab", "cs_oa"}

\* Stripe.Checkout.Session: what POST /checkout/session, /authenticated and
\* /storage asked the provider to create.
Session(s) ==
  CASE s = "cs_new" ->
         [id |-> s, payment_intent |-> "", subscription |-> "sub_web",
          customer |-> "cus_new", amount_total |-> 29900,
          metadata |-> [EmptyMetadata EXCEPT !.case = "A",
                          !.pendingUserEmail = "new@example.com",
                          !.pendingUserFirstName = "Nina",
                          !.pendingUserHashedPassword = "$2a$10$hash",
                          !.authMethod = "email", !.webPlanId = "growth",
                          !.planType = "web"]]
    [] s = "cs_old" ->
         [id |-> s, payment_intent |-> "pi_1", subscription |-> "",
          customer |-> "cus_old", amount_total |-> 10000,
          metadata |-> [EmptyMetadata EXCEPT !.case = "B", !.planType = "production",
                          !.productionPlanId = "signature", !.clientId = CLIENT,
                          !.modulesJson = OneProduction, !.moduleCount = "1"]]
    [] s = "cs_a2" ->
         [id |-> s, payment_intent |-> "", subscription |-> "sub_pd",
          customer |-> "cus_a2", amount_total |-> 29900,
          metadata |-> [EmptyMetadata EXCEPT !.case = "A",
                          !.pendingUserEmail = "a2@example.com",
                          !.pendingUserHashedPassword = "$2a$10$hash",
                          !.authMethod = "email", !.webPlanId = "growth",
                          !.planId = "starter", !.planType = "web"]]
    [] s = "cs_a3" ->
         [id |-> s, payment_intent |-> "pi_a3", subscription |-> "",
          customer |-> "cus_a3", amount_total |-> 29900,
          metadata |-> [EmptyMetadata EXCEPT !.case = "A",
                          !.pendingUserEmail = "a3@example.com",
                          !.authMethod = "google", !.webPlanId = "growth",
                          !.planType = "web"]]
    [] s = "cs_oa" ->
         [id |-> s, payment_intent |-> "pi_oa", subscription |-> "",
          customer |-> "cus_oa", amount_total |-> 29900,
          metadata |-> [EmptyMetadata EXCEPT !.case = "A",
                          !.pendingUserEmail = "oa@example.com",
                          !.authMethod = "oauth", !.webPlanId = "growth",
                          !.planType = "web"]]
    [] s = "cs_b2" ->
         [id |-> s, payment_intent |-> "pi_b2", subscription |-> "",
          customer |-> "cus_b2", amount_total |-> 100000,
          metadata |-> [EmptyMetadata EXCEPT !.case = "B", !.planType = "production",
                          !.pendingUserEmail = "b2@example.com",
                          !.pendingUserHashedPassword = "$2a$10$hash",
                          !.authMethod = "email",
                          !.modulesJson = TwoProduction, !.moduleCount = "2"]]
    [] s = "cs_c" ->
         [id |-> s, payment_intent |-> "", subscription |-> "sub_c",
          customer |-> "cus_c", amount_total |-> 39900,
          metadata |-> [EmptyMetadata EXCEPT !.case = "C", !.planType = "mixed",
                          !.pendingUserEmail = "c@example.com",
                          !.pendingUserHashedPassword = "$2a$10$hash",
                          !.authMethod = "email", !.webPlanId = "growth",
                          !.productionPlanId = "signature"]]
    [] s = "cs_ab" ->
         [id |-> s, payment_intent |-> "pi_ab", subscription |-> "sub_ab",
          customer |-> "cus_ab", amount_total |-> 39900,
          metadata |-> [EmptyMetadata EXCEPT !.case = "B", !.planType = "production",
                          !.pendingUserEmail = "ab@example.com",
                          !.pendingUserHashedPassword = "$2a$10$hash",
                          !.authMethod = "email", !.webPlanId = "growth",
                          !.productionPlanId = "signature"]]
    [] s = "cs_both" ->
         [id |-> s, payment_intent |-> "", subscription |-> "sub_both",
          customer |-> "cus_old", amount_total |-> 500,
          metadata |-> [EmptyMetadata EXCEPT !.type = "storage_addon",
                          !.clientId = CLIENT, !.storagePlanId = "storage-1",
                          !.storageGb = "1",
                          !.pendingUserEmail = "both@example.com",
                          !.pendingUserHashedPassword = "$2a$10$hash",
                          !.authMethod = "email", !.case = "A", !.webPlanId = "growth"]]
    [] s = "cs_bad" ->
         [id |-> s, payment_intent |-> "pi_bad", subscription |-> "",
          customer |-> "cus_bad", amount_total |-> 10000,
          metadata |-> [EmptyMetadata EXCEPT !.case = "B",
                          !.pendingUserEmail = "bad@example.com"]]
    [] OTHER ->
         [id |-> s, payment_intent |-> "", subscription |-> "sub_sto",
          customer |-> "cus_old", amount_total |-> 500,
          metadata |-> [EmptyMetadata EXCEPT !.type = "storage_addon",
                          !.clientId = CLIENT, !.storagePlanId = "storage-1",
                          !.storageGb = "1"]]

\* Stripe.Subscription as stripe.subscriptions.retrieve returns it.
StripeSubscription(id) ==
  IF id = "sub_web"
  THEN [id |-> id, status |-> "trialing", current_period_start |-> 100,
        current_period_end |-> 130, trial_end |-> 130, unit_amount |-> 29900]
  ELSE IF id = "sub_pd"
  THEN [id |-> id, status |-> "past_due", current_period_start |-> 100,
        current_period_end |-> 130, trial_end |-> 0, unit_amount |-> 29900]
  ELSE [id |-> id, status |-> "active", current_period_start |-> 200,
        current_period_end |-> 230, trial_end |-> 0, unit_amount |-> 500]

EmptyObject ==
  [session |-> "", payment_intent |-> "", subscription |-> "", billing_reason |-> "",
   amount |-> 0, status |-> "", current_period_start |-> 0, current_period_end |-> 0,
   cancel_at_period_end |-> FALSE, trial_end |-> 0, metaType |-> "", metaStorageGb |-> ""]

\* A burst of distinct events: one whose handler throws before its first
\* await, then events of a type no handler exists for.
Burst == <<"evt_bad", "evt_b01", "evt_b02", "evt_b03", "evt_b04", "evt_b05", "evt_b06",
           "evt_b07", "evt_b08", "evt_b09", "evt_b10", "evt_b11">>

EventIds == {"evt_new", "evt_old", "evt_sto", "evt_exp", "evt_pif", "evt_pis",
             "evt_ipc", "evt_ipr", "evt_ipf", "evt_upd", "evt_del", "evt_delw", "evt_unk",
             "evt_a2", "evt_a3", "evt_b2", "evt_both",
             "evt_c", "evt_ab", "evt_ipr2",
             "evt_ua", "evt_uc", "evt_ut", "evt_uu", "evt_up", "evt_ipf0", "evt_oa",
             "evt_del0"}
            \cup {Burst[i] : i \in 1..Len(Burst)}

\* Stripe.Event: id, type and the fields of event.data.object the handlers read.
Event(e) ==
  CASE e = "evt_new" -> [id |-> e, type |-> "checkout.session.completed",
                         object |-> [EmptyObject EXCEPT !.session = "cs_new"]]
    [] e = "evt_old" -> [id |-> e, type |-> "checkout.session.completed",
                         object |-> [EmptyObject EXCEPT !.session = "cs_old"]]
    [] e = "evt_sto" -> [id |-> e, type |-> "checkout.session.completed",
                         object |-> [EmptyObject EXCEPT !.session = "cs_sto"]]
    [] e = "evt_a2" -> [id |-> e, type |-> "checkout.session.completed",
                        object |-> [EmptyObject EXCEPT !.session = "cs_a2"]]
    [] e = "evt_a3" -> [id |-> e, type |-> "checkout.session.completed",
                        object |-> [EmptyObject EXCEPT !.session = "cs_a3"]]
    [] e = "evt_b2" -> [id |-> e, type |-> "checkout.session.completed",
                        object |-> [EmptyObject EXCEPT !.session = "cs_b2"]]
    [] e = "evt_c" -> [id |-> e, type |-> "checkout.session.completed",
                       object |-> [EmptyObject EXCEPT !.session = "cs_c"]]
    [] e = "evt_ab" -> [id |-> e, type |-> "checkout.session.completed",
                        object |-> [EmptyObject EXCEPT !.session = "cs_ab"]]
    [] e = "evt_both" -> [id |-> e, type |-> "checkout.session.completed",
                          object |-> [EmptyObject EXCEPT !.session = "cs_both"]]
    [] e = "evt_oa" -> [id |-> e, type |-> "checkout.session.completed",
                        object |-> [EmptyObject EXCEPT !.session = "cs_oa"]]
    [] e = "evt_bad" -> [id |-> e, type |-> "checkout.session.completed",
                         object |-> [EmptyObject EXCEPT !.session = "cs_bad"]]
    [] e = "evt_exp" -> [id |-> e, type |-> "checkout.session.expired",
                         object |-> [EmptyObject EXCEPT !.session = "cs_old"]]
    [] e = "evt_pif" -> [id |-> e, type |-> "payment_intent.payment_failed",
                         object |-> [EmptyObject EXCEPT !.payment_intent = "pi_1"]]
    [] e = "evt_pis" -> [id |-> e, type |-> "payment_intent.succeeded",
                         object |-> [EmptyObject EXCEPT !.payment_intent = "pi_1"]]
    [] e = "evt_ipc" -> [id |-> e, type |-> "invoice.paid",
                         object |-> [EmptyObject EXCEPT !.subscription = "sub_web",
                            !.billing_reason = "subscription_create",
                            !.payment_intent = "pi_c", !.amount = 29900,
                            !.current_period_start = 100, !.current_period_end = 130]]
    [] e = "evt_ipr" -> [id |-> e, type |-> "invoice.paid",
                         object |-> [EmptyObject EXCEPT !.subscription = "sub_web",
                            !.billing_reason = "subscription_cycle",
                            !.payment_intent = "pi_r", !.amount = 9900,
                            !.current_period_start = 130, !.current_period_end = 160]]
    [] e = "evt_ipr2" -> [id |-> e, type |-> "invoice.paid",
                         object |-> [EmptyObject EXCEPT !.subscription = "sub_web",
                            !.billing_reason = "subscription_cycle",
                            !.payment_intent = "pi_r", !.amount = 9900,
                            !.current_period_start = 130, !.current_period_end = 160]]
    [] e = "evt_ipf" -> [id |-> e, type |-> "invoice.payment_failed",
                         object |-> [EmptyObject EXCEPT !.subscription = "sub_web",
                            !.billing_reason = "subscription_cycle",
                            !.payment_intent = "pi_r", !.amount = 9900]]
    [] e = "evt_ipf0" -> [id |-> e, type |-> "invoice.payment_failed",
                          object |-> [EmptyObject EXCEPT !.billing_reason = "manual",
                             !.payment_intent = "pi_m", !.amount = 5000]]
    [] e = "evt_upd" -> [id |-> e, type |-> "customer.subscription.updated",
                         object |-> [EmptyObject EXCEPT !.subscription = "sub_web",
                            !.status = "past_due", !.current_period_start = 130,
                            !.current_period_end = 160, !.cancel_at_period_end = TRUE]]
    [] e = "evt_ua" -> [id |-> e, type |-> "customer.subscription.updated",
                        object |-> [EmptyObject EXCEPT !.subscription = "sub_web",
                           !.status = "active", !.current_period_start = 130,
                           !.current_period_end = 160]]
    [] e = "evt_uc" -> [id |-> e, type |-> "customer.subscription.updated",
                        object |-> [EmptyObject EXCEPT !.subscription = "sub_web",
                           !.status = "canceled", !.current_period_start = 100,
                           !.current_period_end = 130, !.trial_end = 130]]
    [] e = "evt_ut" -> [id |-> e, type |-> "customer.subscription.updated",
                        object |-> [EmptyObject EXCEPT !.subscription = "sub_web",
                           !.status = "trialing", !.current_period_start = 100,
                           !.current_period_end = 145, !.trial_end = 145,
                           !.cancel_at_period_end = TRUE]]
    [] e = "evt_uu" -> [id |-> e, type |-> "customer.subscription.updated",
                        object |-> [EmptyObject EXCEPT !.subscription = "sub_web",
                           !.status = "unpaid", !.current_period_start = 130,
                           !.current_period_end = 160]]
    [] e = "evt_up" -> [id |-> e, type |-> "customer.subscription.updated",
                        object |-> [EmptyObject EXCEPT !.subscription = "sub_web",
                           !.status = "paused", !.current_period_start = 130,
                           !.current_period_end = 160]]
    [] e = "evt_del" -> [id |-> e, type |-> "customer.subscription.deleted",
                         object |-> [EmptyObject EXCEPT !.subscription = "sub_sto",
                            !.status = "canceled", !.metaType = "storage_addon",
                            !.metaStorageGb = "2"]]
    [] e = "evt_del0" -> [id |-> e, type |-> "customer.subscription.deleted",
                          object |-> [EmptyObject EXCEPT !.subscription = "sub_sto0",
                             !.status = "canceled", !.metaType = "storage_addon",
                             !.metaStorageGb = "1"]]
    [] e = "evt_delw" -> [id |-> e, type |-> "customer.subscription.deleted",
                         object |-> [EmptyObject EXCEPT !.subscription = "sub_web",
                            !.status = "canceled"]]
    [] OTHER -> [id |-> e, type |-> "charge.refunded", object |-> EmptyObject]

\* The events the provider sends in one run: one family of related events.
Feeds == { {"evt_sto", "evt_del"},
           {"evt_sto", "evt_del0"},
           {"evt_old", "evt_exp", "evt_pif"},
           {"evt_new", "evt_ipc", "evt_ipr"},
           {"evt_new", "evt_ipr", "evt_ipr2"},
           {"evt_new", "evt_ipf", "evt_ipr"},
           {"evt_new", "evt_upd"},
           {"evt_new", "evt_ipf", "evt_delw"},
           {"evt_old", "evt_pis", "evt_unk"},
           {"evt_new", "evt_up", "evt_ipf0"} }

\* ------------------------------------------------------------- variables
VARIABLES
  now,            \* Date.now()
  cache,          \* processedEvents: Map in insertion order
  invoices,       \* Ledger: invoices rows, row id = position
  subs,           \* Ledger: client_subscriptions rows
  quotas,         \* Ledger: client_storage_quotas, by clientId
  users,          \* Ledger: users rows
  refreshTokens,  \* Ledger: refresh_tokens rows (owner of each)
  pendingAuth,    \* pendingAuthTokens: Map sessionId -> tokens
  provReqs,       \* requests sent to the Project Provisioner
  tasks,          \* webhook requests suspended at an await
  lastResp,       \* the latest HTTP response of POST /webhook
  handled,        \* event ids whose handler has completed (observer)
  acquired,       \* per event: when tryAcquire last returned true, and whether
                  \* its record was released or evicted since (observer)
  feed,           \* the events the provider sends in this run
  gets,           \* GET /auth/session requests suspended at an await
  sessResp,       \* the latest HTTP response of GET /auth/session
  nDeliv, faults, advances, nGets   \* counters of the bounds

ledger == <<invoices, subs, quotas, users, refreshTokens>>
vars == <<now, cache, invoices, subs, quotas, users, refreshTokens, pendingAuth,
          provReqs, tasks, lastResp, handled, acquired, feed, gets, sessResp,
          nDeliv, faults, advances, nGets>>

NoSessResp == [req |-> 0, sid |-> "", code |-> 0, tokens |-> "", userId |-> NoUser]
NoQuota == [storageLimitBytes |-> -1, usedStorageBytes |-> 0, fileCount |-> 0]
NoAuth  == [userId |-> NoUser, createdAt |-> NoTime]
NeverAcquired == [at |-> NoTime, released |-> FALSE, evicted |-> FALSE]

InitUsers ==
  << [id |-> ADMIN, email |-> "admin@example.com", roles |-> {"admin"}, isActive |-> TRUE,
      emailVerified |-> TRUE, password |-> "$2a$10$admin"],
     [id |-> CLIENT, email |-> "client@example.com", roles |-> {"client"}, isActive |-> TRUE,
      emailVerified |-> TRUE, password |-> "$2a$10$client"] >>

\* ------------------------------------------------------------ Dedup Cache
Range(s) == {s[i] : i \in 1..Len(s)}

CacheHas(c, eventId) == \E i \in 1..Len(c) : c[i].eventId = eventId
CacheGet(c, eventId) == c[CHOOSE i \in 1..Len(c) : c[i].eventId = eventId]
CacheDelete(c, eventId) == SelectSeq(c, LAMBDA r : r.eventId # eventId)

\* variant: a record of exactly the TTL's age counts as expired
isDuplicate_expiresAtTtl(c, eventId, t) ==
  CacheHas(c, eventId) /\ t - c[CHOOSE i \in 1..Len(c) : c[i].eventId = eventId].processedAt
                            < EVENT_TTL_MS

\* variant: a record never expires
isDuplicate_neverExpires(c, eventId, t) == CacheHas(c, eventId)

\* isDuplicate: its answer, and the cache it leaves (an expired record is deleted)
isDuplicate(c, eventId, t) ==
  CacheHas(c, eventId) /\ ~(t - CacheGet(c, eventId).processedAt > EVENT_TTL_MS)
afterIsDuplicate(c, eventId, t) ==
  IF CacheHas(c, eventId) /\ t - CacheGet(c, eventId).processedAt > EVENT_TTL_MS
  THEN CacheDelete(c, eventId) ELSE c

\* the position of each record in the stable sort by processedAt ascending
OlderThan(c, i, j) ==
  \/ c[i].processedAt < c[j].processedAt
  \/ c[i].processedAt = c[j].processedAt /\ i < j
Rank(c, j) == Cardinality({i \in 1..Len(c) : OlderThan(c, i, j)})
\* variant: the youngest records go
removeOldestEvents_youngest(c, count) ==
  LET doomed == {c[j].eventId : j \in {k \in 1..Len(c) : Rank(c, k) >= Len(c) - count}}
  IN  SelectSeq(c, LAMBDA r : r.eventId \notin doomed)

removeOldestEvents(c, count) ==
  LET doomed == {c[j].eventId : j \in {k \in 1..Len(c) : Rank(c, k) < count}}
  IN  SelectSeq(c, LAMBDA r : r.eventId \notin doomed)

\* variant: the record is added whatever the size
markAsProcessed_noEviction(c, eventId, eventType, t) ==
  Append(CacheDelete(c, eventId),
         [eventId |-> eventId, eventType |-> eventType, processedAt |-> t])

markAsProcessed(c, eventId, eventType, t) ==
  LET room == IF Len(c) >= MAX_CACHE_SIZE
              THEN removeOldestEvents(c, MAX_CACHE_SIZE \div 10)
              ELSE c
      rec == [eventId |-> eventId, eventType |-> eventType, processedAt |-> t]
  IN  IF CacheHas(room, eventId)
      THEN [i \in 1..Len(room) |-> IF room[i].eventId = eventId THEN rec ELSE room[i]]
      ELSE Append(room, rec)

\* variant: every caller acquires
tryAcquire_always(c, eventId, t) == TRUE

\* tryAcquire: TRUE when the event is to be processed
tryAcquire(c, eventId, t) == ~isDuplicate(c, eventId, t)
afterTryAcquire(c, eventId, eventType, t) ==
  IF isDuplicate(c, eventId, t) THEN c
  ELSE markAsProcessed(afterIsDuplicate(c, eventId, t), eventId, eventType, t)

\* variant: the record stays
release_keeps(c, eventId) == c

release(c, eventId) == CacheDelete(c, eventId)

cleanup(c, t) == SelectSeq(c, LAMBDA r : ~(t - r.processedAt > EVENT_TTL_MS))

\* ------------------------------------------------------------ JavaScript
\* a || b on strings
Or(a, b) == IF a # "" THEN a ELSE b
NaN == -1
\* parseInt(s, 10) of the decimal strings the checkout routes write
parseInt(s) ==
  CASE s = "0" -> 0 [] s = "1" -> 1 [] s = "2" -> 2 [] s = "3" -> 3 [] OTHER -> NaN
\* Number(s) || 0
NumberOrZero(s) == IF parseInt(s) = NaN THEN 0 ELSE parseInt(s)
Max(a, b) == IF a >= b THEN a ELSE b
\* id.charAt(0).toUpperCase() + id.slice(1)
Capitalize(s) ==
  CASE s = "growth" -> "Growth" [] s = "signature" -> "Signature"
    [] s = "starter" -> "Starter" [] OTHER -> s
RECURSIVE JoinPlus(_)
\* names.join(' + ')
JoinPlus(names) ==
  IF Len(names) = 0 THEN ""
  ELSE IF Len(names) = 1 THEN names[1]
  ELSE names[1] \o " + " \o JoinPlus(Tail(names))

\* ---------------------------------------------------------------- Ledger
InvoicesBySession(s) ==
  {i \in 1..Len(invoices) : invoices[i].stripeCheckoutSessionId = s}
\* variant: the where clause is dropped
InvoicesByPaymentIntent_any(p) == 1..Len(invoices)

InvoicesByPaymentIntent(p) ==
  {i \in 1..Len(invoices) : invoices[i].stripePaymentIntentId = p}
SubsByStripeId(id) == {i \in 1..Len(subs) : subs[i].stripeSubscriptionId = id}
\* variant: the where clause is dropped
UserById_any(id) == 1..Len(users)

UserById(id) == {i \in 1..Len(users) : users[i].id = id}

\* unique constraints of the Ledger schema: a violating insert throws
\* variant: the invoices table takes any number
InvoiceNumberTaken_never(n) == FALSE
InvoiceNumberTaken(n) == \E i \in 1..Len(invoices) : invoices[i].invoiceNumber = n
EmailTaken(email) == \E i \in 1..Len(users) : users[i].email = email
\* variant: the client_subscriptions table takes any subscription id
SubscriptionIdTaken_never(id) == FALSE
SubscriptionIdTaken(id) == SubsByStripeId(id) # {}
QuotaExists(c) == quotas[c] # NoQuota

NewInvoice(clientId, number, amountCents, status, paidAt, planId, planName, session, pi, type) ==
  [id |-> Len(invoices) + 1, clientId |-> clientId, invoiceNumber |-> number,
   amountCents |-> amountCents, status |-> status, paidAt |-> paidAt,
   planId |-> planId, planName |-> planName, stripeCheckoutSessionId |-> session,
   stripePaymentIntentId |-> pi, projectId |-> NoId, type |-> type]

\* variant: the provider's status is stored as it is
NewSubscription_copiesStatus(clientId, planId, subId, customerId, s, trialEnd) ==
  [clientId |-> clientId, planId |-> planId, stripeSubscriptionId |-> subId,
   stripeCustomerId |-> customerId, status |-> s.status,
   currentPeriodStart |-> s.current_period_start * 1000,
   currentPeriodEnd |-> s.current_period_end * 1000,
   trialEnd |-> trialEnd, cancelAtPeriodEnd |-> FALSE, cancelledAt |-> NoTime]

NewSubscription(clientId, planId, subId, customerId, s, trialEnd) ==
  [clientId |-> clientId, planId |-> planId, stripeSubscriptionId |-> subId,
   stripeCustomerId |-> customerId,
   status |-> IF s.status = "trialing" THEN "trialing" ELSE "active",
   currentPeriodStart |-> s.current_period_start * 1000,
   currentPeriodEnd |-> s.current_period_end * 1000,
   trialEnd |-> trialEnd,
   cancelAtPeriodEnd |-> FALSE, cancelledAt |-> NoTime]

\* ----------------------------------------------------------------- tasks
\* The locals a suspended handler holds across its awaits.
NewTask(req, e, pc, t) ==
  [req |-> req, ev |-> e, pc |-> pc,
   ts |-> t,          \* Date.now() / new Date() taken before the pending call
   inv |-> NoId,      \* invoice / updatedInvoice / newInvoice
   uid |-> NoUser,    \* newUser / user
   lim |-> -1,        \* existingQuota / quota.storageLimitBytes, then newLimit
   used |-> 0,        \* quota.usedStorageBytes
   st |-> "",         \* status computed from the row read
   proj |-> NoId,     \* response.data.data.project.id; ProvFailed after a failure
   oq |-> FALSE]      \* quota updated and usedStorageBytes > newLimit
ProvFailed == -1

NoResp == [req |-> 0, ev |-> "", code |-> 0, duplicate |-> FALSE, path |-> "",
           notes |-> <<>>, proj |-> NoId]

Response(t, code, dup, path, notes) ==
  [req |-> t.req, ev |-> t.ev, code |-> code, duplicate |-> dup, path |-> path,
   notes |-> notes, proj |-> t.proj]

\* what a handler step leaves alone
SessionFrame == UNCHANGED <<gets, sessResp, nGets>>
StepFrame == UNCHANGED <<now, advances, feed, nDeliv>> /\ SessionFrame

\* the handler suspends at its next await
Goto(t, t2) ==
  /\ tasks' = (tasks \ {t}) \cup {t2}
  /\ UNCHANGED <<cache, lastResp, handled, acquired>>

\* handleEvent resolved: res.status(200).json({received: true})
Resolved(t, path, notes) ==
  /\ tasks' = tasks \ {t}
  /\ lastResp' = Response(t, 200, FALSE, path, notes)
  /\ handled' = handled \cup {t.ev}
  /\ cache' = cache
  /\ acquired' = acquired

\* handleEvent rejected: the catch block releases the event and answers 500
Rejected(t, path) ==
  /\ tasks' = tasks \ {t}
  /\ lastResp' = Response(t, 500, FALSE, path, <<>>)
  /\ handled' = handled
  /\ cache' = release(cache, t.ev)
  /\ acquired' = [acquired EXCEPT ![t.ev].released = TRUE]

\* ------------------------------------------------------- POST /webhook
Metadata(e) == Session(Event(e).object.session).metadata
caseType(e) == Or(Metadata(e).case, "A")
isOAuthUser(e) == Metadata(e).authMethod \in {"google", "oauth"}

\* variant: the pending registration is looked at first
Branch_pendingFirst(e) ==
  IF Metadata(e).pendingUserEmail # "" THEN "pending"
  ELSE IF Metadata(e).type = "storage_addon" THEN "storage"
  ELSE "existing"

\* handleCheckoutSessionCompleted: the branch taken
Branch(e) ==
  IF Metadata(e).type = "storage_addon" THEN "storage"
  ELSE IF Metadata(e).pendingUserEmail # "" THEN "pending"
  ELSE "existing"

\* variant: every event is routed to handlePaymentFailed
Start_routesToPaymentFailed(e) == [kind |-> "await", pc |-> "pf_select"]

\* handleEvent up to its first await: the first awaited call, or the outcome
\* when it returns or throws before awaiting anything
Start(e) ==
  LET type == Event(e).type
      obj  == Event(e).object
  IN CASE type = "checkout.session.completed" ->
            IF Branch(e) = "storage" THEN [kind |-> "await", pc |-> "sa_retrieve"]
            ELSE IF Branch(e) = "pending"
            THEN IF ~isOAuthUser(e) /\ Metadata(e).pendingUserHashedPassword = ""
                 THEN [kind |-> "rejected", pc |-> "pr_validation"]
                 ELSE [kind |-> "await", pc |-> "pr_user"]
            ELSE [kind |-> "await", pc |-> "eu_select"]
       [] type = "checkout.session.expired" -> [kind |-> "await", pc |-> "ex_select"]
       [] type = "payment_intent.succeeded" -> [kind |-> "resolved", pc |-> "logged"]
       [] type = "payment_intent.payment_failed" -> [kind |-> "await", pc |-> "pf_select"]
       [] type = "invoice.paid" ->
            IF obj.subscription = "" THEN [kind |-> "resolved", pc |-> "ip_nosubscription"]
            ELSE [kind |-> "await", pc |-> "ip_selsub"]
       [] type = "invoice.payment_failed" ->
            IF obj.subscription = "" THEN [kind |-> "resolved", pc |-> "if_nosubscription"]
            ELSE [kind |-> "await", pc |-> "if_selsub"]
       [] type = "customer.subscription.updated" -> [kind |-> "await", pc |-> "su_select"]
       [] type = "customer.subscription.deleted" -> [kind |-> "await", pc |-> "sd_select"]
       [] OTHER -> [kind |-> "resolved", pc |-> "unhandled"]

\* the event ids of the records of a cache
CacheIds(c) == {c[i].eventId : i \in 1..Len(c)}

\* the observer after tryAcquire returned true for e and left cache c2
Acquire(e, c2) ==
  [x \in DOMAIN acquired |->
     IF x = e THEN [at |-> now, released |-> FALSE, evicted |-> FALSE]
     ELSE IF x \in CacheIds(cache) \ CacheIds(c2) THEN [acquired[x] EXCEPT !.evicted = TRUE]
     ELSE acquired[x]]

\* A signed event arrives: verifyEvent, tryAcquire, then handleEvent runs to
\* its first await.
DeliverUpTo(e, max) ==
  LET start == Start(e)
      t0 == NewTask(nDeliv + 1, e, start.pc, now)
      after == afterTryAcquire(cache, e, Event(e).type, now)
  IN
  /\ e \in feed
  /\ nDeliv < max
  /\ nDeliv' = nDeliv + 1
  /\ IF ~tryAcquire(cache, e, now)
     THEN /\ lastResp' = Response(t0, 200, TRUE, "duplicate", <<>>)
          /\ cache' = after
          /\ UNCHANGED <<tasks, handled, acquired>>
     ELSE CASE start.kind = "await" ->
                 /\ Cardinality(tasks) < MaxInFlight
                 /\ tasks' = tasks \cup {t0}
                 /\ cache' = after
                 /\ acquired' = Acquire(e, after)
                 /\ UNCHANGED <<lastResp, handled>>
            [] start.kind = "resolved" ->
                 /\ lastResp' = Response(t0, 200, FALSE, start.pc, <<>>)
                 /\ handled' = handled \cup {e}
                 /\ cache' = after
                 /\ acquired' = Acquire(e, after)
                 /\ UNCHANGED tasks
            [] OTHER ->
                 /\ lastResp' = Response(t0, 500, FALSE, start.pc, <<>>)
                 /\ cache' = release(after, e)
                 /\ acquired' = [Acquire(e, after) EXCEPT ![e].released = TRUE]
                 /\ UNCHANGED <<tasks, handled>>
  /\ UNCHANGED <<ledger, pendingAuth, provReqs, now, advances, feed, faults>>
  /\ SessionFrame

Deliver(e) == DeliverUpTo(e, MaxDeliveries)

\* A burst: the events of Burst arrive in their order, each possibly again.
DeliverBurst(e) ==
  /\ \E i \in 1..Len(Burst) :
       /\ Burst[i] = e
       /\ \A j \in 1..(i - 1) : acquired[Burst[j]].at # NoTime
  /\ DeliverUpTo(e, MaxBurst)

\* The ways a request ends before tryAcquire: no stripe-signature header;
\* constructEvent throws StripeSignatureVerificationError; constructEvent
\* throws any other error, which is what decoding a body that is not JSON
\* gives once its signature has verified.
Rejections == {"Missing signature", "StripeSignatureVerificationError", "MalformedPayload"}
\* the status the route answers: its catch block answers 400 only to an
\* error whose type is StripeSignatureVerificationError
rejectionStatus(why) == IF why = "MalformedPayload" THEN 500 ELSE 400

\* A request that verifyEvent does not turn into an event: eventId is still
\* undefined in the catch block, so nothing is released.
DeliverInvalid ==
  /\ nDeliv < MaxDeliveries
  /\ nDeliv' = nDeliv + 1
  /\ \E why \in Rejections :
       lastResp' = Response(NewTask(nDeliv + 1, "", "", now), rejectionStatus(why), FALSE, why, <<>>)
  /\ UNCHANGED <<ledger, pendingAuth, provReqs, now, advances, feed, faults,
                 cache, tasks, handled, acquired>>
  /\ SessionFrame

\* Date.now() is d milliseconds later
AdvanceBy(d) ==
  /\ advances < MaxAdvances
  /\ advances' = advances + 1
  /\ now' = now + d
  /\ UNCHANGED <<ledger, pendingAuth, provReqs, feed, faults, nDeliv, cache, tasks,
                 lastResp, handled, acquired>>
  /\ SessionFrame

\* time passes
Advance == \E d \in Jumps : AdvanceBy(d)

\* the hourly cleanup timer
Cleanup ==
  /\ cache' = cleanup(cache, now)
  /\ cache' # cache
  /\ UNCHANGED <<ledger, pendingAuth, provReqs, now, advances, feed, faults, nDeliv,
                 tasks, lastResp, handled, acquired>>
  /\ SessionFrame

\* ------------------------------------------- external calls that fail
\* awaits outside any try block, or inside one that rethrows: the error
\* reaches the catch block of the route
ThrowingPcs ==
  {"sa_retrieve", "sa_invoice", "sa_sub", "sa_selquota", "sa_updquota", "sa_seluser",
   "pr_user", "pr_token", "pr_invoice", "eu_select", "eu_update", "eu_seluser",
   "ex_select", "ex_update", "pf_select", "pf_update",
   "ip_selsub", "ip_selinv", "ip_insert", "ip_updsub",
   "if_selsub", "if_updsub", "if_insert", "su_select", "su_update",
   "sd_select", "sd_update"}

CallThrows(t) ==
  /\ t.pc \in ThrowingPcs
  /\ faults < MaxFaults
  /\ faults' = faults + 1
  /\ Rejected(t, t.pc)
  /\ UNCHANGED <<ledger, pendingAuth, provReqs>>
  /\ StepFrame


\* ------------------------------------------------ Phoenix: storage addon
\* String(n) of the numbers parseInt yields
NumToString(n) == CASE n = 0 -> "0" [] n = 1 -> "1" [] n = 2 -> "2" [] n = 3 -> "3"
                 [] OTHER -> "NaN"
storageGbOf(e) == parseInt(Or(Metadata(e).storageGb, "0"))
storageBytesToAdd(e) == storageGbOf(e) * GB

\* stripe.subscriptions.retrieve(subscriptionId)
SaRetrieve(t) ==
  /\ t.pc = "sa_retrieve"
  /\ Goto(t, [t EXCEPT !.pc = "sa_invoice", !.ts = now])
  /\ UNCHANGED <<ledger, pendingAuth, provReqs, faults>>
  /\ StepFrame

StorageInvoice(t) ==
  LET s  == Session(Event(t.ev).object.session)
      md == s.metadata
  IN NewInvoice(md.clientId,
                <<"INV-STORAGE", t.ts, Prefix8(md.clientId)>>,
                StripeSubscription(s.subscription).unit_amount,
                "paid", t.ts, md.storagePlanId,
                "Stockage supplementaire +" \o NumToString(storageGbOf(t.ev)) \o "GB",
                s.id, "", "storage_addon")

\* db.insert(invoices)
SaInvoice(t) ==
  /\ t.pc = "sa_invoice"
  /\ IF InvoiceNumberTaken(StorageInvoice(t).invoiceNumber)
     THEN Rejected(t, t.pc) /\ UNCHANGED invoices
     ELSE /\ invoices' = Append(invoices, StorageInvoice(t))
          /\ Goto(t, [t EXCEPT !.pc = "sa_sub", !.inv = StorageInvoice(t).id, !.ts = now])
  /\ UNCHANGED <<subs, quotas, users, refreshTokens, pendingAuth, provReqs, faults>>
  /\ StepFrame

\* db.insert(clientSubscriptions)
SaSub(t) ==
  LET s  == Session(Event(t.ev).object.session)
      md == s.metadata
  IN
  /\ t.pc = "sa_sub"
  /\ IF SubscriptionIdTaken(s.subscription)
     THEN Rejected(t, t.pc) /\ UNCHANGED subs
     ELSE /\ subs' = Append(subs, NewSubscription(md.clientId, md.storagePlanId,
                       s.subscription, s.customer,
                       StripeSubscription(s.subscription), NoTime))
          /\ Goto(t, [t EXCEPT !.pc = "sa_selquota"])
  /\ UNCHANGED <<invoices, quotas, users, refreshTokens, pendingAuth, provReqs, faults>>
  /\ StepFrame

\* db.select().from(clientStorageQuotas)
SaSelQuota(t) ==
  /\ t.pc = "sa_selquota"
  /\ Goto(t, [t EXCEPT !.pc = "sa_updquota",
                       !.lim = quotas[Metadata(t.ev).clientId].storageLimitBytes])
  /\ UNCHANGED <<ledger, pendingAuth, provReqs, faults>>
  /\ StepFrame

\* variant: the limit is set to the base allotment plus the addon
IncreasedQuota_fromBase(q, bytes) == [q EXCEPT !.storageLimitBytes = baseStorageBytes + bytes]

\* the increment of an existing quota row
IncreasedQuota(q, bytes) == [q EXCEPT !.storageLimitBytes = @ + bytes]

\* db.update(clientStorageQuotas) or db.insert(clientStorageQuotas)
SaUpdQuota(t) ==
  LET c == Metadata(t.ev).clientId
  IN
  /\ t.pc = "sa_updquota"
  /\ IF t.lim # NoQuota.storageLimitBytes
     THEN /\ quotas' = [quotas EXCEPT ![c] = IncreasedQuota(@, storageBytesToAdd(t.ev))]
          /\ Goto(t, [t EXCEPT !.pc = "sa_seluser"])
     ELSE IF QuotaExists(c)
     THEN Rejected(t, t.pc) /\ UNCHANGED quotas
     ELSE /\ quotas' = [quotas EXCEPT ![c] =
                          [storageLimitBytes |-> baseStorageBytes + storageBytesToAdd(t.ev),
                           usedStorageBytes |-> 0, fileCount |-> 0]]
          /\ Goto(t, [t EXCEPT !.pc = "sa_seluser"])
  /\ UNCHANGED <<invoices, subs, users, refreshTokens, pendingAuth, provReqs, faults>>
  /\ StepFrame

\* db.select().from(users)
SaSelUser(t) ==
  /\ t.pc = "sa_seluser"
  /\ Goto(t, [t EXCEPT !.pc = "sa_notify",
                       !.uid = IF UserById(Metadata(t.ev).clientId) # {}
                               THEN Metadata(t.ev).clientId ELSE NoUser])
  /\ UNCHANGED <<ledger, pendingAuth, provReqs, faults>>
  /\ StepFrame

\* ------------------------------------------ Phoenix: project and workflow
\* invoice.planId?.split(',')[0]
SplitFirst(s) == CASE s = "growth,signature" -> "growth" [] OTHER -> s

\* where the caller of createProjectAndWorkflow goes on
Continuation(e) == IF Branch(e) = "pending" THEN "pr_notify" ELSE "eu_seluser"

\* createProjectAndWorkflow after its subscription part
AfterSubscription(e, invoice) ==
  IF invoice.planId # "" /\ invoice.planName # "" THEN "cp_post" ELSE Continuation(e)

\* variant: the subscription is recorded whatever the case
createProjectAndWorkflow_anyCase(e, invoice) ==
  IF Session(Event(e).object.session).subscription # ""
  THEN "cs_retrieve"
  ELSE AfterSubscription(e, invoice)

createProjectAndWorkflow(e, invoice) ==
  IF Session(Event(e).object.session).subscription # "" /\ caseType(e) \in {"A", "C"}
  THEN "cs_retrieve"
  ELSE AfterSubscription(e, invoice)

\* createSubscriptionRecord: stripe.subscriptions.retrieve, then the planId
CsRetrieve(t) ==
  LET invoice == invoices[t.inv]
      planId == IF caseType(t.ev) = "A" THEN invoice.planId
                ELSE Or(Metadata(t.ev).webPlanId, SplitFirst(invoice.planId))
  IN
  /\ t.pc = "cs_retrieve"
  /\ Goto(t, [t EXCEPT !.pc = IF planId = "" THEN AfterSubscription(t.ev, invoice)
                              ELSE "cs_insert",
                       !.st = planId])
  /\ UNCHANGED <<ledger, pendingAuth, provReqs, faults>>
  /\ StepFrame

\* createSubscriptionRecord: db.insert(clientSubscriptions); its catch block
\* swallows the error of a refused insert
CsInsert(t) ==
  LET s == Session(Event(t.ev).object.session)
      sub == StripeSubscription(s.subscription)
  IN
  /\ t.pc = "cs_insert"
  /\ IF SubscriptionIdTaken(s.subscription)
     THEN UNCHANGED subs
     ELSE subs' = Append(subs, NewSubscription(invoices[t.inv].clientId, t.st,
                     s.subscription, s.customer, sub,
                     IF sub.trial_end # 0 THEN sub.trial_end * 1000 ELSE NoTime))
  /\ Goto(t, [t EXCEPT !.pc = AfterSubscription(t.ev, invoices[t.inv]), !.st = ""])
  /\ UNCHANGED <<invoices, quotas, users, refreshTokens, pendingAuth, provReqs, faults>>
  /\ StepFrame

\* variant: older metadata is never given the two-module request
RequestShape_noLegacy(e) ==
  IF Metadata(e).modulesJson # NoModules /\ parseInt(Or(Metadata(e).moduleCount, "0")) > 0
  THEN "create-with-modules:dynamic"
  ELSE "create-with-workflow"

\* createProject: which request is sent
RequestShape(e) ==
  LET md == Metadata(e)
  IN IF md.modulesJson # NoModules /\ parseInt(Or(md.moduleCount, "0")) > 0
     THEN "create-with-modules:dynamic"
     ELSE IF caseType(e) = "C" /\ md.webPlanId # "" /\ md.productionPlanId # ""
     THEN "create-with-modules:legacy"
     ELSE "create-with-workflow"

\* variant: one module is asked for whatever modulesJson lists
ProvisionRequest_single(t) ==
  [invoiceId |-> t.inv, clientId |-> invoices[t.inv].clientId, req |-> t.req,
   shape |-> "create-with-workflow", modules |-> 1]

ProvisionRequest(t) ==
  [invoiceId |-> t.inv, clientId |-> invoices[t.inv].clientId, req |-> t.req,
   shape |-> RequestShape(t.ev),
   modules |-> CASE RequestShape(t.ev) = "create-with-modules:dynamic" ->
                      Len(Metadata(t.ev).modulesJson)
                 [] RequestShape(t.ev) = "create-with-modules:legacy" -> 2
                 [] OTHER -> 1]

\* variant: the call is made again
ProjectCreationFailed_retries(t) == [t EXCEPT !.pc = "cp_post", !.proj = ProvFailed]

\* createProject, when the call failed: handleProjectCreationError only logs
ProjectCreationFailed(t) ==
  [t EXCEPT !.pc = Continuation(t.ev), !.proj = ProvFailed]

\* createProject: axios.post to the Provisioner.  It answers success with a
\* project, or the call fails (network error, timeout, success: false).
CpPost(t) ==
  /\ t.pc = "cp_post"
  /\ provReqs' = Append(provReqs, ProvisionRequest(t))
  /\ \/ /\ Goto(t, [t EXCEPT !.pc = "cp_update", !.proj = Len(provReqs) + 1])
        /\ UNCHANGED faults
     \/ /\ faults < MaxFaults
        /\ faults' = faults + 1
        /\ Goto(t, ProjectCreationFailed(t))
  /\ UNCHANGED <<ledger, pendingAuth>>
  /\ StepFrame

\* createProject: db.update(invoices).set({projectId})
CpUpdate(t) ==
  /\ t.pc = "cp_update"
  /\ invoices' = [invoices EXCEPT ![t.inv].projectId = t.proj]
  /\ Goto(t, [t EXCEPT !.pc = Continuation(t.ev)])
  /\ UNCHANGED <<subs, quotas, users, refreshTokens, pendingAuth, provReqs, faults>>
  /\ StepFrame


\* --------------------------------------- Phoenix: pending registration
\* variant: the handler goes on without the users row
PrUser_withoutInsert(t) ==
  /\ t.pc = "pr_user"
  /\ Goto(t, [t EXCEPT !.pc = "pr_token", !.uid = NewUserId(Len(users) + 1)])
  /\ UNCHANGED <<ledger, pendingAuth, provReqs, faults>>
  /\ StepFrame

\* variant: the password stored is the one of the metadata
passwordHash_asSupplied(e) == Metadata(e).pendingUserHashedPassword

\* the password of the new user: the hash of the metadata, or for an OAuth
\* user without one the bcrypt hash of 32 random bytes
passwordHash(e) ==
  IF isOAuthUser(e) /\ Metadata(e).pendingUserHashedPassword = ""
  THEN "$2a$10$random"
  ELSE Metadata(e).pendingUserHashedPassword

\* bcrypt.hash for an OAuth user without password, then db.insert(users)
PrUser(t) ==
  LET md == Metadata(t.ev)
      newUser == [id |-> NewUserId(Len(users) + 1), email |-> md.pendingUserEmail,
                  roles |-> {"client"}, isActive |-> TRUE,
                  emailVerified |-> isOAuthUser(t.ev), password |-> passwordHash(t.ev)]
  IN
  /\ t.pc = "pr_user"
  /\ IF EmailTaken(md.pendingUserEmail)
     THEN Rejected(t, t.pc) /\ UNCHANGED users
     ELSE /\ users' = Append(users, newUser)
          /\ Goto(t, [t EXCEPT !.pc = "pr_token", !.uid = newUser.id])
  /\ UNCHANGED <<invoices, subs, quotas, refreshTokens, pendingAuth, provReqs, faults>>
  /\ StepFrame

\* db.insert(refreshTokens), then pendingAuthTokens.set(checkoutSessionId, ...)
PrToken(t) ==
  /\ t.pc = "pr_token"
  /\ refreshTokens' = Append(refreshTokens, t.uid)
  /\ pendingAuth' = [pendingAuth EXCEPT ![Event(t.ev).object.session] =
                       [userId |-> t.uid, createdAt |-> now]]
  /\ Goto(t, [t EXCEPT !.pc = "pr_invoice", !.ts = now])
  /\ UNCHANGED <<invoices, subs, quotas, users, provReqs, faults>>
  /\ StepFrame

\* createInvoice: modulesData.find(m => m.planId === id)?.planName, else the
\* capitalized id
getPlanDisplayName(modulesData, id, fallback) ==
  LET found == {i \in 1..Len(modulesData) : modulesData[i].planId = id}
      first == CHOOSE i \in found : \A j \in found : i <= j
  IN IF id = "" THEN fallback
     ELSE IF found # {} /\ modulesData[first].planName # ""
     THEN modulesData[first].planName
     ELSE Capitalize(id)

ModuleNames(ms) == [i \in 1..Len(ms) |-> Or(ms[i].planName, ms[i].planId)]

createInvoicePlanId(case, md) ==
  CASE case = "C" -> Or(md.webPlanId, "growth")
    [] case = "A" -> Or(md.webPlanId, Or(md.planId, "growth"))
    [] OTHER -> Or(md.productionPlanId, Or(md.planId, "signature"))

createInvoicePlanName(case, md) ==
  LET modulesData == md.modulesJson
      productionModules ==
        SelectSeq(modulesData, LAMBDA m : m.type = "production" \/ m.type # "web")
  IN CASE case = "C" ->
            getPlanDisplayName(modulesData, md.webPlanId, "Formule Web") \o " + " \o
            (IF Len(productionModules) > 0 THEN JoinPlus(ModuleNames(productionModules))
             ELSE Or(md.productionPlanId, "Production"))
       [] case = "A" ->
            getPlanDisplayName(modulesData, Or(md.webPlanId, md.planId), "Formule Web")
       [] OTHER ->
            IF Len(modulesData) > 0 THEN JoinPlus(ModuleNames(modulesData))
            ELSE getPlanDisplayName(modulesData, Or(md.productionPlanId, md.planId),
                                    "Production")

createInvoice(clientId, e, ts) ==
  LET s == Session(Event(e).object.session)
  IN NewInvoice(clientId, <<"INV-" \o caseType(e), ts, Prefix8(clientId)>>,
                s.amount_total, "paid", ts,
                createInvoicePlanId(caseType(e), s.metadata),
                createInvoicePlanName(caseType(e), s.metadata),
                s.id, s.payment_intent, "initial")

\* createInvoice: db.insert(invoices)
PrInvoice(t) ==
  LET invoice == createInvoice(t.uid, t.ev, t.ts)
  IN
  /\ t.pc = "pr_invoice"
  /\ IF InvoiceNumberTaken(invoice.invoiceNumber)
     THEN Rejected(t, t.pc) /\ UNCHANGED invoices
     ELSE /\ invoices' = Append(invoices, invoice)
          /\ Goto(t, [t EXCEPT !.pc = createProjectAndWorkflow(t.ev, invoice),
                               !.inv = invoice.id])
  /\ UNCHANGED <<subs, quotas, users, refreshTokens, pendingAuth, provReqs, faults>>
  /\ StepFrame

\* --------------------------------------- Phoenix: existing user payment
\* db.select().from(invoices).where(stripeCheckoutSessionId = ...).limit(1)
EuSelect(t) ==
  LET found == InvoicesBySession(Event(t.ev).object.session)
  IN
  /\ t.pc = "eu_select"
  /\ IF found = {}
     THEN Resolved(t, "eu_noinvoice", <<>>)
     ELSE \E i \in found : Goto(t, [t EXCEPT !.pc = "eu_update", !.inv = i, !.ts = now])
  /\ UNCHANGED <<ledger, pendingAuth, provReqs, faults>>
  /\ StepFrame

\* variant: the invoice is marked paid and nothing is provisioned
EuUpdate_skipsCreation(t) ==
  /\ t.pc = "eu_update"
  /\ invoices' = [invoices EXCEPT ![t.inv].status = "paid", ![t.inv].paidAt = t.ts,
                    ![t.inv].stripePaymentIntentId =
                       Session(Event(t.ev).object.session).payment_intent]
  /\ Goto(t, [t EXCEPT !.pc = "eu_seluser"])
  /\ UNCHANGED <<subs, quotas, users, refreshTokens, pendingAuth, provReqs, faults>>
  /\ StepFrame

\* db.update(invoices).set({status: 'paid', paidAt, stripePaymentIntentId})
EuUpdate(t) ==
  /\ t.pc = "eu_update"
  /\ invoices' = [invoices EXCEPT ![t.inv].status = "paid", ![t.inv].paidAt = t.ts,
                    ![t.inv].stripePaymentIntentId =
                       Session(Event(t.ev).object.session).payment_intent]
  /\ Goto(t, [t EXCEPT !.pc = createProjectAndWorkflow(t.ev, invoices[t.inv])])
  /\ UNCHANGED <<subs, quotas, users, refreshTokens, pendingAuth, provReqs, faults>>
  /\ StepFrame

\* db.select().from(users).where(id = updatedInvoice.clientId)
EuSelUser(t) ==
  /\ t.pc = "eu_seluser"
  /\ Goto(t, [t EXCEPT !.pc = "eu_notify",
                       !.uid = IF UserById(invoices[t.inv].clientId) # {}
                               THEN invoices[t.inv].clientId ELSE NoUser])
  /\ UNCHANGED <<ledger, pendingAuth, provReqs, faults>>
  /\ StepFrame


\* ----------------------------------------- WebhookService: one-off events
\* handleCheckoutSessionExpired: db.select().from(invoices).limit(1)
ExSelect(t) ==
  LET found == InvoicesBySession(Event(t.ev).object.session)
  IN
  /\ t.pc = "ex_select"
  /\ IF found = {}
     THEN Resolved(t, "ex_noinvoice", <<>>)
     ELSE \E i \in found : Goto(t, [t EXCEPT !.pc = "ex_update", !.inv = i])
  /\ UNCHANGED <<ledger, pendingAuth, provReqs, faults>>
  /\ StepFrame

\* handleCheckoutSessionExpired: db.update(invoices).set({status: 'cancelled'})
ExUpdate(t) ==
  /\ t.pc = "ex_update"
  /\ invoices' = [invoices EXCEPT ![t.inv].status = "cancelled"]
  /\ Resolved(t, "ex_cancelled", <<>>)
  /\ UNCHANGED <<subs, quotas, users, refreshTokens, pendingAuth, provReqs, faults>>
  /\ StepFrame

\* handlePaymentFailed: db.select().from(invoices).limit(1)
PfSelect(t) ==
  LET found == InvoicesByPaymentIntent(Event(t.ev).object.payment_intent)
  IN
  /\ t.pc = "pf_select"
  /\ IF found = {}
     THEN Resolved(t, "pf_noinvoice", <<>>)
     ELSE \E i \in found :
            Goto(t, [t EXCEPT !.pc = "pf_update", !.inv = i, !.uid = invoices[i].clientId])
  /\ UNCHANGED <<ledger, pendingAuth, provReqs, faults>>
  /\ StepFrame

\* handlePaymentFailed: db.update(invoices).set({status: 'failed'})
PfUpdate(t) ==
  /\ t.pc = "pf_update"
  /\ invoices' = [invoices EXCEPT ![t.inv].status = "failed"]
  /\ Goto(t, [t EXCEPT !.pc = "pf_notify"])
  /\ UNCHANGED <<subs, quotas, users, refreshTokens, pendingAuth, provReqs, faults>>
  /\ StepFrame

\* ---------------------------------------- WebhookService: recurring events
\* db.update(clientSubscriptions).set(...).where(stripeSubscriptionId = id)
UpdateSubs(id, set) ==
  [i \in 1..Len(subs) |->
     IF subs[i].stripeSubscriptionId = id
     THEN [k \in DOMAIN subs[i] |-> IF k \in DOMAIN set THEN set[k] ELSE subs[i][k]]
     ELSE subs[i]]

\* variant: the initial payment is not told apart
isInitialPayment_never(obj) == FALSE

\* handleInvoicePaid: the payment checkout.session.completed has recorded
isInitialPayment(obj) == obj.billing_reason = "subscription_create"

\* handleInvoicePaid: select the subscription, then the billing_reason test
IpSelSub(t) ==
  LET obj == Event(t.ev).object
      found == SubsByStripeId(obj.subscription)
  IN
  /\ t.pc = "ip_selsub"
  /\ IF found = {}
     THEN Resolved(t, "ip_nosubscriptionrow", <<>>)
     ELSE IF isInitialPayment(obj)
     THEN Resolved(t, "ip_initial", <<>>)
     ELSE \E i \in found :
            Goto(t, [t EXCEPT !.pc = "ip_selinv", !.ts = now,
                              !.uid = subs[i].clientId, !.st = subs[i].planId])
  /\ UNCHANGED <<ledger, pendingAuth, provReqs, faults>>
  /\ StepFrame

\* handleInvoicePaid: the idempotency select by stripePaymentIntentId
IpSelInv(t) ==
  /\ t.pc = "ip_selinv"
  /\ IF InvoicesByPaymentIntent(Event(t.ev).object.payment_intent) # {}
     THEN Resolved(t, "ip_existing", <<>>)
     ELSE Goto(t, [t EXCEPT !.pc = "ip_insert"])
  /\ UNCHANGED <<ledger, pendingAuth, provReqs, faults>>
  /\ StepFrame

RecurringInvoice(t, prefix, status) ==
  NewInvoice(t.uid, <<prefix, t.ts, Prefix8(t.uid)>>, Event(t.ev).object.amount,
             status, IF status = "paid" THEN t.ts ELSE NoTime,
             t.st, "Abonnement " \o t.st, "", Event(t.ev).object.payment_intent,
             IF status = "paid" THEN "recurring" ELSE "recurring_failed")

\* handleInvoicePaid: db.insert(invoices)
IpInsert(t) ==
  LET invoice == RecurringInvoice(t, "INV-REC", "paid")
  IN
  /\ t.pc = "ip_insert"
  /\ IF InvoiceNumberTaken(invoice.invoiceNumber)
     THEN Rejected(t, t.pc) /\ UNCHANGED invoices
     ELSE /\ invoices' = Append(invoices, invoice)
          /\ Goto(t, [t EXCEPT !.pc = "ip_updsub", !.inv = invoice.id])
  /\ UNCHANGED <<subs, quotas, users, refreshTokens, pendingAuth, provReqs, faults>>
  /\ StepFrame

\* handleInvoicePaid: db.update(clientSubscriptions) with the new period
IpUpdSub(t) ==
  LET obj == Event(t.ev).object
  IN
  /\ t.pc = "ip_updsub"
  /\ subs' = UpdateSubs(obj.subscription,
               [currentPeriodStart |-> obj.current_period_start * 1000,
                currentPeriodEnd |-> obj.current_period_end * 1000,
                status |-> "active"])
  /\ Resolved(t, "ip_recorded", <<>>)
  /\ UNCHANGED <<invoices, quotas, users, refreshTokens, pendingAuth, provReqs, faults>>
  /\ StepFrame

\* handleInvoicePaymentFailed: select the subscription
IfSelSub(t) ==
  LET found == SubsByStripeId(Event(t.ev).object.subscription)
  IN
  /\ t.pc = "if_selsub"
  /\ IF found = {}
     THEN Resolved(t, "if_nosubscriptionrow", <<>>)
     ELSE \E i \in found :
            Goto(t, [t EXCEPT !.pc = "if_updsub", !.uid = subs[i].clientId,
                              !.st = subs[i].planId])
  /\ UNCHANGED <<ledger, pendingAuth, provReqs, faults>>
  /\ StepFrame

\* variant: the failed invoice is recorded and the status left alone
IfUpdSub_skips(t) ==
  /\ t.pc = "if_updsub"
  /\ Goto(t, [t EXCEPT !.pc = "if_insert", !.ts = now])
  /\ UNCHANGED <<ledger, pendingAuth, provReqs, faults>>
  /\ StepFrame

\* handleInvoicePaymentFailed: db.update(clientSubscriptions) to past_due
IfUpdSub(t) ==
  /\ t.pc = "if_updsub"
  /\ subs' = UpdateSubs(Event(t.ev).object.subscription,
               [status |-> "past_due"])
  /\ Goto(t, [t EXCEPT !.pc = "if_insert", !.ts = now])
  /\ UNCHANGED <<invoices, quotas, users, refreshTokens, pendingAuth, provReqs, faults>>
  /\ StepFrame

\* handleInvoicePaymentFailed: db.insert(invoices) of the failed invoice
IfInsert(t) ==
  LET invoice == RecurringInvoice(t, "INV-FAIL", "failed")
  IN
  /\ t.pc = "if_insert"
  /\ IF InvoiceNumberTaken(invoice.invoiceNumber)
     THEN Rejected(t, t.pc) /\ UNCHANGED invoices
     ELSE /\ invoices' = Append(invoices, invoice)
          /\ Goto(t, [t EXCEPT !.pc = "if_notify", !.inv = invoice.id])
  /\ UNCHANGED <<subs, quotas, users, refreshTokens, pendingAuth, provReqs, faults>>
  /\ StepFrame


\* ------------------------------------ WebhookService: subscription events
\* variant: an unpaid subscription is stored as cancelled
MapStatus_unpaidCancelled(stripeStatus, current) ==
  CASE stripeStatus = "active" -> "active"
    [] stripeStatus = "past_due" -> "past_due"
    [] stripeStatus \in {"canceled", "unpaid"} -> "cancelled"
    [] stripeStatus = "trialing" -> "trialing"
    [] OTHER -> current

\* handleSubscriptionUpdated: the status switch
MapStatus(stripeStatus, current) ==
  CASE stripeStatus = "active" -> "active"
    [] stripeStatus = "past_due" -> "past_due"
    [] stripeStatus = "canceled" -> "cancelled"
    [] stripeStatus = "trialing" -> "trialing"
    [] stripeStatus = "unpaid" -> "past_due"
    [] OTHER -> current

SuSelect(t) ==
  LET obj == Event(t.ev).object
      found == SubsByStripeId(obj.subscription)
  IN
  /\ t.pc = "su_select"
  /\ IF found = {}
     THEN Resolved(t, "su_nosubscriptionrow", <<>>)
     ELSE \E i \in found :
            Goto(t, [t EXCEPT !.pc = "su_update",
                              !.st = MapStatus(obj.status, subs[i].status)])
  /\ UNCHANGED <<ledger, pendingAuth, provReqs, faults>>
  /\ StepFrame

SuUpdate(t) ==
  LET obj == Event(t.ev).object
  IN
  /\ t.pc = "su_update"
  /\ subs' = UpdateSubs(obj.subscription,
               [status |-> t.st,
                currentPeriodStart |-> obj.current_period_start * 1000,
                currentPeriodEnd |-> obj.current_period_end * 1000,
                cancelAtPeriodEnd |-> obj.cancel_at_period_end,
                trialEnd |-> IF obj.trial_end # 0 THEN obj.trial_end * 1000 ELSE NoTime])
  /\ Resolved(t, "su_updated", <<>>)
  /\ UNCHANGED <<invoices, quotas, users, refreshTokens, pendingAuth, provReqs, faults>>
  /\ StepFrame

SdSelect(t) ==
  LET found == SubsByStripeId(Event(t.ev).object.subscription)
  IN
  /\ t.pc = "sd_select"
  /\ IF found = {}
     THEN Resolved(t, "sd_nosubscriptionrow", <<>>)
     ELSE \E i \in found :
            Goto(t, [t EXCEPT !.pc = "sd_update", !.uid = subs[i].clientId, !.ts = now])
  /\ UNCHANGED <<ledger, pendingAuth, provReqs, faults>>
  /\ StepFrame

\* variant: nothing is ever removed
storageBytesToRemove_none(e) == 0

\* handleStorageAddonCancellation: Number(metadata.storageGb) || 0, in bytes
storageBytesToRemove(e) == NumberOrZero(Event(e).object.metaStorageGb) * GB

\* handleSubscriptionDeleted: the update to cancelled; then, for a storage
\* addon that removes something, the quota part
SdUpdate(t) ==
  LET obj == Event(t.ev).object
  IN
  /\ t.pc = "sd_update"
  /\ subs' = UpdateSubs(obj.subscription,
               [status |-> "cancelled", cancelledAt |-> t.ts])
  /\ Goto(t, [t EXCEPT !.pc = IF obj.metaType = "storage_addon"
                                 /\ storageBytesToRemove(t.ev) > 0
                              THEN "sc_selquota" ELSE "sd_notify"])
  /\ UNCHANGED <<invoices, quotas, users, refreshTokens, pendingAuth, provReqs, faults>>
  /\ StepFrame

\* variant: the subtraction without its floor
newLimit_unclamped(currentLimit, bytesToRemove) == currentLimit - bytesToRemove

\* Math.max(baseStorageBytes, currentLimit - storageBytesToRemove)
newLimit(currentLimit, bytesToRemove) ==
  Max(baseStorageBytes, currentLimit - bytesToRemove)

\* handleStorageAddonCancellation: select the quota, compute the new limit
ScSelQuota(t) ==
  LET quota == quotas[t.uid]
      currentLimit == IF quota.storageLimitBytes = 0 THEN baseStorageBytes
                      ELSE quota.storageLimitBytes
  IN
  /\ t.pc = "sc_selquota"
  /\ IF ~QuotaExists(t.uid)
     THEN Goto(t, [t EXCEPT !.pc = "sd_notify"])
     ELSE Goto(t, [t EXCEPT !.pc = "sc_update",
                            !.lim = newLimit(currentLimit, storageBytesToRemove(t.ev)),
                            !.used = quota.usedStorageBytes])
  /\ UNCHANGED <<ledger, pendingAuth, provReqs, faults>>
  /\ StepFrame

\* variant: the alert is never due
isOverQuota_never(used, limit) == FALSE

\* handleStorageAddonCancellation: quota.usedStorageBytes > newLimit
isOverQuota(used, limit) == used > limit

\* the notification createCustom is asked for when the client is over quota
overQuotaNotification(clientId) ==
  [userId |-> clientId, type |-> "storage.over_quota", category |-> "storage",
   priority |-> "high"]

\* handleStorageAddonCancellation: db.update(clientStorageQuotas) with the
\* limit computed from the row read before
ScUpdate(t) ==
  /\ t.pc = "sc_update"
  /\ quotas' = [quotas EXCEPT ![t.uid].storageLimitBytes = t.lim]
  /\ Goto(t, [t EXCEPT !.pc = "sd_notify", !.oq = isOverQuota(t.used, t.lim)])
  /\ UNCHANGED <<invoices, subs, users, refreshTokens, pendingAuth, provReqs, faults>>
  /\ StepFrame

\* --------------------------------- calls whose failure is caught and logged
SwallowedPcs == {"cs_retrieve", "cs_insert", "cp_update", "sc_selquota", "sc_update"}

\* where the handler goes on after the catch block
AfterCatch(t) ==
  CASE t.pc \in {"cs_retrieve", "cs_insert"} -> AfterSubscription(t.ev, invoices[t.inv])
    [] t.pc = "cp_update" -> Continuation(t.ev)
    [] OTHER -> "sd_notify"

CallSwallowed(t) ==
  /\ t.pc \in SwallowedPcs
  /\ faults < MaxFaults
  /\ faults' = faults + 1
  /\ Goto(t, [t EXCEPT !.pc = AfterCatch(t)])
  /\ UNCHANGED <<ledger, pendingAuth, provReqs>>
  /\ StepFrame


\* ------------------------------------------------------- notifications
\* getStaffUserIds(false): the active users with role admin or super_admin
StaffUserIds ==
  {users[i].id : i \in {j \in 1..Len(users) :
                          users[j].isActive /\ users[j].roles \cap {"admin", "super_admin"} # {}}}

NotifyPcs == {"sa_notify", "pr_notify", "eu_notify", "pf_notify", "if_notify", "sd_notify"}
\* the handlers that look the staff up before notifying them
StaffPcs == {"pf_notify", "if_notify", "sd_notify"}

\* The notifications a handler sends after its last Ledger write, in order.
\* adminIds is what getStaffUserIds returned.
NotificationPlan(t, adminIds) ==
  LET toAdmins(kind) == IF adminIds # {} THEN <<kind>> ELSE <<>>
  IN CASE t.pc = "sa_notify" ->
            IF t.uid # NoUser THEN <<"payment_success">> ELSE <<>>
       [] t.pc = "pr_notify" ->
            <<"welcome", "payment_success">> \o
            (IF isOAuthUser(t.ev) THEN <<>> ELSE <<"verification_email">>)
       [] t.pc = "eu_notify" ->
            IF t.uid # NoUser THEN <<"payment_success">> ELSE <<>>
       [] t.pc \in {"pf_notify", "if_notify"} ->
            <<"payment_failed">> \o toAdmins("admin.payment_failed")
       [] OTHER ->
            (IF t.oq THEN <<"storage.over_quota">> ELSE <<>>) \o
            <<"subscription_cancelled">> \o toAdmins("admin.subscription_cancelled")

\* variant: the first failure ends the handler's notifications
Notes_stopAtFailure(plan, failing) ==
  LET last == IF failing = {} THEN Len(plan)
              ELSE CHOOSE i \in failing : \A j \in failing : i <= j
  IN [i \in 1..last |-> [kind |-> plan[i], sent |-> i \notin failing]]

\* Each notification is awaited inside its own try block: one that fails is
\* logged and the next one is sent.
Notes(plan, failing) ==
  [i \in 1..Len(plan) |-> [kind |-> plan[i], sent |-> i \notin failing]]

\* The tail of a handler: its notifications, then handleEvent resolves.
Notify(t) ==
  /\ t.pc \in NotifyPcs
  /\ \E staffOk \in IF t.pc \in StaffPcs THEN BOOLEAN ELSE {TRUE} :
       LET plan == NotificationPlan(t, IF staffOk THEN StaffUserIds ELSE {})
       IN \E failing \in SUBSET (1..Len(plan)) :
            LET cost == Cardinality(failing) + (IF staffOk THEN 0 ELSE 1)
            IN /\ faults + cost <= MaxFaults
               /\ faults' = faults + cost
               /\ Resolved(t, t.pc, Notes(plan, failing))
  /\ UNCHANGED <<ledger, pendingAuth, provReqs>>
  /\ StepFrame

\* ------------------------------------------------------------------ Next
\* The requests and the handler steps of a run that takes place at one
\* instant; NextClock below lets time pass between them.
Next ==
  \/ \E e \in EventIds : Deliver(e)
  \/ \E t \in tasks : CallThrows(t)
  \/ \E t \in tasks : CallSwallowed(t)
  \/ \E t \in tasks : SaRetrieve(t)
  \/ \E t \in tasks : SaInvoice(t)
  \/ \E t \in tasks : SaSub(t)
  \/ \E t \in tasks : SaSelQuota(t)
  \/ \E t \in tasks : SaUpdQuota(t)
  \/ \E t \in tasks : SaSelUser(t)
  \/ \E t \in tasks : PrUser(t)
  \/ \E t \in tasks : PrToken(t)
  \/ \E t \in tasks : PrInvoice(t)
  \/ \E t \in tasks : EuSelect(t)
  \/ \E t \in tasks : EuUpdate(t)
  \/ \E t \in tasks : EuSelUser(t)
  \/ \E t \in tasks : CsRetrieve(t)
  \/ \E t \in tasks : CsInsert(t)
  \/ \E t \in tasks : CpPost(t)
  \/ \E t \in tasks : CpUpdate(t)
  \/ \E t \in tasks : ExSelect(t)
  \/ \E t \in tasks : ExUpdate(t)
  \/ \E t \in tasks : PfSelect(t)
  \/ \E t \in tasks : PfUpdate(t)
  \/ \E t \in tasks : IpSelSub(t)
  \/ \E t \in tasks : IpSelInv(t)
  \/ \E t \in tasks : IpInsert(t)
  \/ \E t \in tasks : IpUpdSub(t)
  \/ \E t \in tasks : IfSelSub(t)
  \/ \E t \in tasks : IfUpdSub(t)
  \/ \E t \in tasks : IfInsert(t)
  \/ \E t \in tasks : SuSelect(t)
  \/ \E t \in tasks : SuUpdate(t)
  \/ \E t \in tasks : SdSelect(t)
  \/ \E t \in tasks : SdUpdate(t)
  \/ \E t \in tasks : ScSelQuota(t)
  \/ \E t \in tasks : ScUpdate(t)
  \/ \E t \in tasks : Notify(t)


\* ------------------------------------------------------------------ Init
\* POST /checkout/authenticated wrote the pending invoice of its session
\* before the provider sends any event about it.
AuthenticatedCheckoutInvoice ==
  [id |-> 1, clientId |-> CLIENT, invoiceNumber |-> <<"INV-B", 0, Prefix8(CLIENT)>>,
   amountCents |-> Session("cs_old").amount_total, status |-> "pending",
   paidAt |-> NoTime, planId |-> "signature", planName |-> "Signature",
   stripeCheckoutSessionId |-> "cs_old", stripePaymentIntentId |-> "",
   projectId |-> NoId, type |-> "initial"]

\* The invoices table when the events arrive: the row of the authenticated
\* checkout, or, for the events that refer to it, no row at all.
InitInvoiceRows(f) ==
  IF "evt_exp" \in f THEN {<<AuthenticatedCheckoutInvoice>>, <<>>}
  ELSE {<<AuthenticatedCheckoutInvoice>>}

\* The client has no quota row yet, or one from the storage service.
InitQuotaRows ==
  {NoQuota, [storageLimitBytes |-> 6 * GB, usedStorageBytes |-> 5 * GB + GB \div 2,
             fileCount |-> 3]}

InitWith(feeds) ==
  /\ feed \in feeds
  /\ now = 0
  /\ cache = <<>>
  /\ invoices \in InitInvoiceRows(feed)
  /\ subs = IF "evt_del0" \in feed
            THEN <<NewSubscription(CLIENT, "storage-1", "sub_sto0", "cus_old",
                                   StripeSubscription("sub_sto0"), NoTime)>>
            ELSE <<>>
  /\ quotas \in [{CLIENT} -> IF "evt_del0" \in feed THEN InitQuotaRows \ {NoQuota}
                              ELSE IF "evt_sto" \in feed THEN InitQuotaRows
                              ELSE {NoQuota}]
  /\ users = InitUsers
  /\ refreshTokens = <<>>
  /\ pendingAuth = [s \in SessionIds |-> NoAuth]
  /\ provReqs = <<>>
  /\ tasks = {}
  /\ lastResp = NoResp
  /\ handled = {}
  /\ acquired = [e \in feed |-> NeverAcquired]
  /\ nDeliv = 0
  /\ faults = 0
  /\ advances = 0
  /\ gets = {} /\ sessResp = NoSessResp /\ nGets = 0

Init == InitWith(Feeds)

Spec == Init /\ [][Next]_vars

\* ------------------------------------------------ the same, as time passes
\* The purchase and the cancellation of a storage add-on, or a registration
\* and then two recurring charges of its subscription or one update of it
\* (to active, canceled, trialing, unpaid or paused), with the clock moving
\* between the steps and the hourly cleanup of the Dedup Cache.
ClockFeeds == { {"evt_sto", "evt_del"}, {"evt_new", "evt_ipr", "evt_ipr2"},
                {"evt_new", "evt_ua"}, {"evt_new", "evt_uc"}, {"evt_new", "evt_ut"},
                {"evt_new", "evt_uu"}, {"evt_new", "evt_up"} }

InitClock == InitWith(ClockFeeds)

NextClock ==
  \/ \E e \in feed : Deliver(e)
  \/ Advance
  \/ Cleanup
  \/ \E t \in tasks : CallThrows(t)
  \/ \E t \in tasks : CallSwallowed(t)
  \/ \E t \in tasks : SaRetrieve(t)
  \/ \E t \in tasks : SaInvoice(t)
  \/ \E t \in tasks : SaSub(t)
  \/ \E t \in tasks : SaSelQuota(t)
  \/ \E t \in tasks : SaUpdQuota(t)
  \/ \E t \in tasks : SaSelUser(t)
  \/ \E t \in tasks : PrUser(t)
  \/ \E t \in tasks : PrToken(t)
  \/ \E t \in tasks : PrInvoice(t)
  \/ \E t \in tasks : CsRetrieve(t)
  \/ \E t \in tasks : CsInsert(t)
  \/ \E t \in tasks : CpPost(t)
  \/ \E t \in tasks : CpUpdate(t)
  \/ \E t \in tasks : IpSelSub(t)
  \/ \E t \in tasks : IpSelInv(t)
  \/ \E t \in tasks : IpInsert(t)
  \/ \E t \in tasks : IpUpdSub(t)
  \/ \E t \in tasks : SuSelect(t)
  \/ \E t \in tasks : SuUpdate(t)
  \/ \E t \in tasks : SdSelect(t)
  \/ \E t \in tasks : SdUpdate(t)
  \/ \E t \in tasks : ScSelQuota(t)
  \/ \E t \in tasks : ScUpdate(t)
  \/ \E t \in tasks : Notify(t)

SpecClock == InitClock /\ [][NextClock]_vars

\* ------------------------------------------------ a burst of events
\* More distinct events than the Dedup Cache holds arrive within its TTL,
\* a millisecond apart at most.
InitBurst ==
  /\ feed = {Burst[i] : i \in 1..Len(Burst)}
  /\ now = 0
  /\ cache = <<>>
  /\ invoices = <<AuthenticatedCheckoutInvoice>>
  /\ subs = <<>>
  /\ quotas = [c \in {CLIENT} |-> NoQuota]
  /\ users = InitUsers
  /\ refreshTokens = <<>>
  /\ pendingAuth = [s \in SessionIds |-> NoAuth]
  /\ provReqs = <<>>
  /\ tasks = {}
  /\ lastResp = NoResp
  /\ handled = {}
  /\ acquired = [e \in feed |-> NeverAcquired]
  /\ nDeliv = 0
  /\ faults = 0
  /\ advances = 0
  /\ gets = {} /\ sessResp = NoSessResp /\ nGets = 0

NextBurst ==
  \/ \E e \in feed : DeliverBurst(e)
  \/ AdvanceBy(1)

SpecBurst == InitBurst /\ [][NextBurst]_vars


\* ------------------------------------------------ GET /auth/session/:sessionId
\* Clock jumps around the two windows of a staged entry.
SessionJumps ==
  {TOKEN_GRACE_MS, TOKEN_GRACE_MS + 1, TOKEN_VALIDITY_MS, TOKEN_VALIDITY_MS + 1}

\* the locals of a request suspended in the database path
NewGet(req, s) == [req |-> req, sid |-> s, pc |-> "gs_selinv", inv |-> NoId, uid |-> NoUser]

SessionResponse(g, code, tokens, userId) ==
  [req |-> g.req, sid |-> g.sid, code |-> code, tokens |-> tokens, userId |-> userId]

\* what a step of the database path leaves alone
GetFrame ==
  UNCHANGED <<cache, tasks, lastResp, handled, acquired, feed, now, advances, nDeliv,
              nGets, provReqs, pendingAuth, invoices, subs, quotas, users>>

\* the request is answered
Answered(g, code, tokens, userId) ==
  /\ gets' = gets \ {g}
  /\ sessResp' = SessionResponse(g, code, tokens, userId)

\* variant: the entry is deleted by the read that returns it
keepsEntry_never(tokenAge) == FALSE

\* the cached path keeps the entry when tokenAge is at most two minutes
keepsEntry(tokenAge) == ~(tokenAge > TOKEN_GRACE_MS)

\* The synchronous part of the route: the cached path answers at once, the
\* database path suspends at its first select.
GetSession(s) ==
  LET authData == pendingAuth[s]
      tokenAge == now - authData.createdAt
      g == NewGet(nGets + 1, s)
  IN
  /\ nGets < MaxGets
  /\ Cardinality(gets) < MaxInFlight
  /\ nGets' = nGets + 1
  /\ IF authData # NoAuth /\ ~(tokenAge > TOKEN_VALIDITY_MS)
     THEN /\ pendingAuth' = IF keepsEntry(tokenAge) THEN pendingAuth
                             ELSE [pendingAuth EXCEPT ![s] = NoAuth]
          /\ sessResp' = SessionResponse(g, 200, "cached", authData.userId)
          /\ UNCHANGED gets
     ELSE /\ pendingAuth' = [pendingAuth EXCEPT ![s] = NoAuth]
          /\ gets' = gets \cup {g}
          /\ UNCHANGED sessResp
  /\ UNCHANGED <<ledger, provReqs, cache, tasks, lastResp, handled, acquired, feed, now,
                 advances, nDeliv, faults>>

\* db.select().from(invoices).where(stripeCheckoutSessionId = sessionId).limit(1)
GsSelInv(g) ==
  LET found == InvoicesBySession(g.sid)
  IN
  /\ g.pc = "gs_selinv"
  /\ IF found = {}
     THEN Answered(g, 404, "", NoUser)
     ELSE \E i \in found :
            IF invoices[i].status # "paid"
            THEN Answered(g, 400, "", NoUser)
            ELSE /\ gets' = (gets \ {g}) \cup {[g EXCEPT !.pc = "gs_seluser", !.inv = i]}
                 /\ UNCHANGED sessResp
  /\ UNCHANGED <<refreshTokens, faults>>
  /\ GetFrame

\* db.select().from(users).where(id = invoice.clientId).limit(1)
GsSelUser(g) ==
  LET clientId == invoices[g.inv].clientId
  IN
  /\ g.pc = "gs_seluser"
  /\ IF UserById(clientId) = {}
     THEN Answered(g, 404, "", NoUser)
     ELSE /\ gets' = (gets \ {g}) \cup {[g EXCEPT !.pc = "gs_insert", !.uid = clientId]}
          /\ UNCHANGED sessResp
  /\ UNCHANGED <<refreshTokens, faults>>
  /\ GetFrame

\* the tokens are generated and hashed (no state is read or written there),
\* then db.insert(refreshTokens)
GsInsert(g) ==
  /\ g.pc = "gs_insert"
  /\ refreshTokens' = Append(refreshTokens, g.uid)
  /\ Answered(g, 200, "fresh", g.uid)
  /\ UNCHANGED faults
  /\ GetFrame

\* an awaited Ledger call of the database path rejects: the catch block
GetThrows(g) ==
  /\ g \in gets
  /\ faults < MaxFaults
  /\ faults' = faults + 1
  /\ Answered(g, 500, "", NoUser)
  /\ UNCHANGED refreshTokens
  /\ GetFrame

\* the timer that every five minutes deletes the entries older than ten
SweepTokens ==
  /\ pendingAuth' = [s \in DOMAIN pendingAuth |->
                       IF pendingAuth[s] # NoAuth
                          /\ now - pendingAuth[s].createdAt > TOKEN_VALIDITY_MS
                       THEN NoAuth ELSE pendingAuth[s]]
  /\ pendingAuth' # pendingAuth
  /\ UNCHANGED <<ledger, provReqs, cache, tasks, lastResp, handled, acquired, feed, now,
                 advances, nDeliv, faults>>
  /\ SessionFrame

\* time passes
AdvanceSession ==
  /\ advances < MaxAdvances
  /\ advances' = advances + 1
  /\ \E d \in SessionJumps : now' = now + d
  /\ UNCHANGED <<ledger, pendingAuth, provReqs, feed, faults, nDeliv, cache, tasks,
                 lastResp, handled, acquired>>
  /\ SessionFrame

\* the sessions a browser asks for: those of the run, and one without invoice
SessionsAsked == {Event(e).object.session : e \in feed} \cup {"cs_sto"}

\* A new client or an existing one pays; the browser asks for the tokens at
\* any moment. The existing client's user row may be gone.
InitSession ==
  /\ feed \in {{"evt_new"}, {"evt_old"}}
  /\ now = 0
  /\ cache = <<>>
  /\ invoices = <<AuthenticatedCheckoutInvoice>>
  /\ subs = <<>>
  /\ quotas = [c \in {CLIENT} |-> NoQuota]
  /\ users \in IF "evt_old" \in feed
               THEN {InitUsers, SelectSeq(InitUsers, LAMBDA u : u.id # CLIENT)}
               ELSE {InitUsers}
  /\ refreshTokens = <<>>
  /\ pendingAuth = [s \in SessionIds |-> NoAuth]
  /\ provReqs = <<>>
  /\ tasks = {}
  /\ lastResp = NoResp
  /\ handled = {}
  /\ acquired = [e \in feed |-> NeverAcquired]
  /\ nDeliv = 0
  /\ faults = 0
  /\ advances = 0
  /\ gets = {} /\ sessResp = NoSessResp /\ nGets = 0

NextSession ==
  \/ \E e \in feed : Deliver(e)
  \/ \E s \in SessionsAsked : GetSession(s)
  \/ \E g \in gets : GsSelInv(g)
  \/ \E g \in gets : GsSelUser(g)
  \/ \E g \in gets : GsInsert(g)
  \/ \E g \in gets : GetThrows(g)
  \/ SweepTokens
  \/ AdvanceSession
  \/ \E t \in tasks : PrUser(t)
  \/ \E t \in tasks : PrToken(t)
  \/ \E t \in tasks : PrInvoice(t)
  \/ \E t \in tasks : EuSelect(t)
  \/ \E t \in tasks : EuUpdate(t)
  \/ \E t \in tasks : EuSelUser(t)
  \/ \E t \in tasks : CsRetrieve(t)
  \/ \E t \in tasks : CsInsert(t)
  \/ \E t \in tasks : CpPost(t)
  \/ \E t \in tasks : CpUpdate(t)
  \/ \E t \in tasks : Notify(t)

SpecSession == InitSession /\ [][NextSession]_vars

\* ------------------------------------------- the cases of a registration
\* One checkout completes: of a new client, case A with a trialing, with a
\* past-due or with no subscription, case B with two production modules,
\* case C or case B with the two plan ids of older metadata and no module
\* list; or one whose metadata carries both type storage_addon and
\* pendingUserEmail; or the one of the signed-in client; or one of a new
\* client who signs in through OAuth (authMethod oauth) or whose metadata
\* has neither a password hash nor an authMethod.  Requests that the Event
\* Verifier refuses arrive in between.
CaseFeeds == {{"evt_new"}, {"evt_a2"}, {"evt_a3"}, {"evt_b2"}, {"evt_both"},
              {"evt_c"}, {"evt_ab"}, {"evt_old"}, {"evt_oa"}, {"evt_bad"}}

InitCases ==
  /\ feed \in CaseFeeds
  /\ now = 0
  /\ cache = <<>>
  /\ invoices \in
       IF "evt_both" \in feed
       THEN {<<AuthenticatedCheckoutInvoice>>,
             <<[AuthenticatedCheckoutInvoice EXCEPT !.stripeCheckoutSessionId = "cs_both"]>>}
       ELSE IF "evt_old" \in feed
       THEN {<<AuthenticatedCheckoutInvoice>>,
             <<[AuthenticatedCheckoutInvoice EXCEPT !.planId = "", !.planName = ""]>>}
       ELSE {<<AuthenticatedCheckoutInvoice>>}
  /\ subs = <<>>
  /\ quotas = [c \in {CLIENT} |-> NoQuota]
  /\ users = InitUsers
  /\ refreshTokens = <<>>
  /\ pendingAuth = [s \in SessionIds |-> NoAuth]
  /\ provReqs = <<>>
  /\ tasks = {}
  /\ lastResp = NoResp
  /\ handled = {}
  /\ acquired = [e \in feed |-> NeverAcquired]
  /\ nDeliv = 0
  /\ faults = 0
  /\ advances = 0
  /\ gets = {} /\ sessResp = NoSessResp /\ nGets = 0

NextCases ==
  \/ \E e \in feed : Deliver(e)
  \/ DeliverInvalid
  \/ \E t \in tasks : CallThrows(t)
  \/ \E t \in tasks : CallSwallowed(t)
  \/ \E t \in tasks : SaRetrieve(t)
  \/ \E t \in tasks : SaInvoice(t)
  \/ \E t \in tasks : SaSub(t)
  \/ \E t \in tasks : SaSelQuota(t)
  \/ \E t \in tasks : SaUpdQuota(t)
  \/ \E t \in tasks : SaSelUser(t)
  \/ \E t \in tasks : PrUser(t)
  \/ \E t \in tasks : PrToken(t)
  \/ \E t \in tasks : PrInvoice(t)
  \/ \E t \in tasks : EuSelect(t)
  \/ \E t \in tasks : EuUpdate(t)
  \/ \E t \in tasks : EuSelUser(t)
  \/ \E t \in tasks : CsRetrieve(t)
  \/ \E t \in tasks : CsInsert(t)
  \/ \E t \in tasks : CpPost(t)
  \/ \E t \in tasks : CpUpdate(t)
  \/ \E t \in tasks : Notify(t)

SpecCases == InitCases /\ [][NextCases]_vars

\* ------------------------------------------------- the provider's retries
\* One checkout completes, of a new client (case A, C or B) or of the
\* signed-in one.  The
\* provider delivers the event, and delivers it again after each 500, for
\* as long as it takes; at most MaxFaults calls fail.  Requests past
\* MaxDeliveries share the last request number.
RetryFeeds == {{"evt_new"}, {"evt_old"}, {"evt_c"}, {"evt_b2"}}

InitRetry ==
  /\ feed \in RetryFeeds
  /\ now = 0
  /\ cache = <<>>
  /\ invoices = <<AuthenticatedCheckoutInvoice>>
  /\ subs = <<>>
  /\ quotas = [c \in {CLIENT} |-> NoQuota]
  /\ users = InitUsers
  /\ refreshTokens = <<>>
  /\ pendingAuth = [s \in SessionIds |-> NoAuth]
  /\ provReqs = <<>>
  /\ tasks = {}
  /\ lastResp = NoResp
  /\ handled = {}
  /\ acquired = [e \in feed |-> NeverAcquired]
  /\ nDeliv = 0
  /\ faults = 0
  /\ advances = 0
  /\ gets = {} /\ sessResp = NoSessResp /\ nGets = 0

\* POST /webhook for the first delivery of e or for a retry after a 500:
\* verifyEvent, tryAcquire, then handleEvent runs to its first await
Redeliver(e) ==
  LET start == Start(e)
      req == IF nDeliv < MaxDeliveries THEN nDeliv + 1 ELSE MaxDeliveries
      t0 == NewTask(req, e, start.pc, now)
      after == afterTryAcquire(cache, e, Event(e).type, now)
  IN
  /\ e \in feed
  /\ tasks = {}
  /\ nDeliv = 0 \/ (lastResp.ev = e /\ lastResp.code = 500)
  /\ nDeliv' = req
  /\ IF ~tryAcquire(cache, e, now)
     THEN /\ lastResp' = Response(t0, 200, TRUE, "duplicate", <<>>)
          /\ cache' = after
          /\ UNCHANGED <<tasks, handled, acquired>>
     ELSE CASE start.kind = "await" ->
                 /\ tasks' = tasks \cup {t0}
                 /\ cache' = after
                 /\ acquired' = Acquire(e, after)
                 /\ UNCHANGED <<lastResp, handled>>
            [] start.kind = "resolved" ->
                 /\ lastResp' = Response(t0, 200, FALSE, start.pc, <<>>)
                 /\ handled' = handled \cup {e}
                 /\ cache' = after
                 /\ acquired' = Acquire(e, after)
                 /\ UNCHANGED tasks
            [] OTHER ->
                 /\ lastResp' = Response(t0, 500, FALSE, start.pc, <<>>)
                 /\ cache' = release(after, e)
                 /\ acquired' = [Acquire(e, after) EXCEPT ![e].released = TRUE]
                 /\ UNCHANGED <<tasks, handled>>
  /\ UNCHANGED <<ledger, pendingAuth, provReqs, now, advances, feed, faults>>
  /\ SessionFrame

NextRetry ==
  \/ \E e \in feed : Redeliver(e)
  \/ \E t \in tasks : CallThrows(t)
  \/ \E t \in tasks : CallSwallowed(t)
  \/ \E t \in tasks : PrUser(t)
  \/ \E t \in tasks : PrToken(t)
  \/ \E t \in tasks : PrInvoice(t)
  \/ \E t \in tasks : EuSelect(t)
  \/ \E t \in tasks : EuUpdate(t)
  \/ \E t \in tasks : EuSelUser(t)
  \/ \E t \in tasks : CsRetrieve(t)
  \/ \E t \in tasks : CsInsert(t)
  \/ \E t \in tasks : CpPost(t)
  \/ \E t \in tasks : CpUpdate(t)
  \/ \E t \in tasks : Notify(t)

\* every request is answered in the end and the provider does retry: a step
\* that stays possible is taken
SpecRetry == InitRetry /\ [][NextRetry]_vars /\ WF_vars(NextRetry)

\* ------------------------------------------------------------ properties
\* this step is a delivery of event e to POST /webhook
Delivered(e) ==
  /\ nDeliv' = nDeliv + 1
  /\ \/ \E t \in tasks' \ tasks : t.ev = e /\ t.req = nDeliv'
     \/ lastResp'.req = nDeliv' /\ lastResp'.ev = e
\* ... answered 200 {received: true, duplicate: true}
AnsweredDuplicate ==
  lastResp'.req = nDeliv' /\ lastResp'.code = 200 /\ lastResp'.duplicate
\* ... in which tryAcquire returned true
AcquiredTrue(e) == Delivered(e) /\ ~(lastResp'.req = nDeliv' /\ lastResp'.duplicate)
\* e was acquired before and the TTL window of that record is still open
InWindow(e) == acquired[e].at # NoTime /\ now - acquired[e].at <= EVENT_TTL_MS
\* this step ends task t with an error thrown at its pending call
Threw(t) ==
  /\ t \in tasks /\ t \notin tasks'
  /\ lastResp'.req = t.req /\ lastResp'.path = t.pc /\ t.pc \in ThrowingPcs

\* C1 as stated: every delivery of an event within the TTL window of an
\* earlier delivery of it is answered as a duplicate, starts no handler and
\* writes nothing to the Ledger.
C1_AsStated ==
  [][\A e \in feed : Delivered(e) /\ InWindow(e) =>
        AnsweredDuplicate /\ tasks' = tasks /\ ledger' = ledger /\ provReqs' = provReqs]_vars

\* C1 amended: a delivery of an event within the TTL window of an earlier
\* delivery of it, whose record was neither released after a failed handler
\* nor evicted by the capacity bound, is answered 200 duplicate, starts no
\* handler and writes nothing to the Ledger.
C1_Idempotent ==
  [][\A e \in feed :
        Delivered(e) /\ InWindow(e) /\ ~acquired[e].released /\ ~acquired[e].evicted =>
        AnsweredDuplicate /\ tasks' = tasks /\ ledger' = ledger /\ provReqs' = provReqs]_vars

\* a completed event is delivered again on the last millisecond of its window
C1_Witness ==
  /\ lastResp.duplicate /\ lastResp.code = 200
  /\ lastResp.ev \in handled
  /\ now - acquired[lastResp.ev].at = EVENT_TTL_MS
  /\ Len(invoices) > 1

\* C2 as stated: within the TTL window of a record, tryAcquire returns true
\* for its id a second time only after release was called for that id.
C2_AsStated ==
  [][\A e \in feed : AcquiredTrue(e) /\ InWindow(e) => acquired[e].released]_vars

\* C2 amended: within the TTL window of a record, tryAcquire returns true
\* for its id a second time only after the record was released or was
\* evicted by the capacity bound.
C2_OneAcquirer ==
  [][\A e \in feed : AcquiredTrue(e) /\ InWindow(e) =>
        acquired[e].released \/ acquired[e].evicted]_vars

\* a second delivery is refused while the cache is at its capacity
C2_Witness ==
  /\ lastResp.duplicate
  /\ Len(cache) = MAX_CACHE_SIZE
  /\ \E e \in feed : acquired[e].evicted

\* C3: a handler that throws is answered 500 and leaves no record of its
\* event in the Dedup Cache; the next delivery of a released event is not
\* answered as a duplicate: it acquires again and the handler runs again.
C3_ReleaseOnFailure ==
  [][/\ \A t \in tasks : Threw(t) =>
           lastResp'.code = 500 /\ ~CacheHas(cache', t.ev)
     /\ \A e \in feed : Delivered(e) /\ acquired[e].released =>
           /\ ~AnsweredDuplicate
           /\ CacheHas(cache', e) \/ lastResp'.code = 500
           /\ (\E t \in tasks' \ tasks : t.ev = e) \/ lastResp'.req = nDeliv']_vars

\* after a 500 the same event was delivered again and its handler runs
C3_Witness ==
  /\ lastResp.code = 500 /\ lastResp.path \in ThrowingPcs
  /\ \E t \in tasks : t.ev = lastResp.ev /\ t.req > lastResp.req

\* C4 as stated: in every reachable Ledger state each checkoutSessionId is
\* carried by at most one Invoice whose status is not cancelled.
C4_AsStated ==
  \A s \in SessionIds :
    Cardinality({i \in InvoicesBySession(s) : invoices[i].status # "cancelled"}) <= 1

\* C5 as stated: a handler that runs for an event whose handling has
\* already completed once writes nothing to invoices, subscriptions, quotas
\* or users and sends no request to the Provisioner.
C5_AsStated ==
  [][\A t \in tasks \ tasks' :
        t.ev \in handled => ledger' = ledger /\ provReqs' = provReqs]_vars

\* C6: the storageLimitBytes of every quota row is at least the base
\* allotment of 5 GiB, in every state that purchases and cancellations of
\* storage addons reach in any interleaving.
C6_QuotaFloor ==
  \A c \in DOMAIN quotas :
    QuotaExists(c) => quotas[c].storageLimitBytes >= baseStorageBytes

\* a cancellation of 2 GB after a purchase of 1 GB has set the limit
C6_Witness ==
  /\ lastResp.ev = "evt_del" /\ lastResp.path = "sd_notify"
  /\ "evt_sto" \in handled
  /\ storageBytesToRemove("evt_del") > storageBytesToAdd("evt_sto")
  /\ quotas[CLIENT].storageLimitBytes = baseStorageBytes

\* the paid invoices of a client that are not records of a recurring payment
PaidInitial(inv, c) ==
  {i \in 1..Len(inv) : inv[i].clientId = c /\ inv[i].status = "paid"
                         /\ inv[i].type # "recurring"}
ClientOfSubscription(id) == subs[CHOOSE i \in SubsByStripeId(id) : TRUE].clientId

\* C7: handling invoice.paid with billing_reason subscription_create writes
\* nothing, and when it has found the subscription that the checkout created
\* the client has exactly one paid invoice that is not the record of a
\* recurring payment; handling invoice.paid with
\* billing_reason subscription_cycle adds one paid row with the payment
\* intent of the event, next to the paid invoice of the checkout.
C7_DoubleCountGuard ==
  [][\A t \in tasks \ tasks' :
       LET obj == Event(t.ev).object
       IN Event(t.ev).type = "invoice.paid" =>
            /\ obj.billing_reason = "subscription_create" =>
                  /\ ledger' = ledger
                  /\ lastResp'.path = "ip_initial" =>
                        Cardinality(PaidInitial(invoices,
                           ClientOfSubscription(obj.subscription))) = 1
            /\ t.pc = "ip_insert" /\ ~Threw(t) =>
                  /\ Len(invoices') = Len(invoices) + 1
                  /\ SubSeq(invoices', 1, Len(invoices)) = invoices
                  /\ invoices'[Len(invoices')].status = "paid"
                  /\ invoices'[Len(invoices')].stripePaymentIntentId = obj.payment_intent
                  /\ PaidInitial(invoices', invoices'[Len(invoices')].clientId) # {}]_vars

\* checkout, initial invoice.paid and a cycle invoice.paid are all handled:
\* the new client has two paid invoices
C7_Witness ==
  /\ {"evt_new", "evt_ipc", "evt_ipr"} \subseteq handled
  /\ lastResp.path = "ip_recorded"
  /\ \E i, j \in 1..Len(invoices) :
       /\ i # j /\ invoices[i].clientId = invoices[j].clientId
       /\ invoices[i].status = "paid" /\ invoices[j].status = "paid"
       /\ invoices[i].stripeCheckoutSessionId = "cs_new" /\ invoices[j].type = "recurring"
  /\ Cardinality({i \in 1..Len(invoices) : invoices[i].status = "paid"}) = 2

\* the event is the completion of a checkout with a pending registration
IsPendingCompletion(e) ==
  Event(e).type = "checkout.session.completed" /\ Branch(e) = "pending"
UsersWithEmail(u, email) == {i \in 1..Len(u) : u[i].email = email}

\* C8 (with the unique email of the Ledger schema): no email has two users;
\* when the handler of a pending-registration completion resolves, exactly
\* one user has the email of the registration; a handler of any other event
\* or branch never writes to users.
C8_UserOnce ==
  [][/\ \A i, j \in 1..Len(users') : users'[i].email = users'[j].email => i = j
     /\ \A t \in tasks \ tasks' :
          IF IsPendingCompletion(t.ev)
          THEN t.pc = "pr_notify" =>
                 Cardinality(UsersWithEmail(users', Metadata(t.ev).pendingUserEmail)) = 1
          ELSE users' = users]_vars

\* a registration completed on a later delivery
C8_Witness ==
  /\ lastResp.ev = "evt_new" /\ lastResp.path = "pr_notify" /\ lastResp.req > 1
  /\ Cardinality(UsersWithEmail(users, Metadata("evt_new").pendingUserEmail)) = 1
  /\ Len(users) = Len(InitUsers) + 1

\* C9: the step in which the Provisioner call fails writes nothing to the
\* Ledger, answers nothing and keeps the dedup record: the handler goes on.
\* From then on this handler sends no further Provisioner request and writes
\* nothing to the Ledger, and unless another call throws it ends with 200
\* {received: true} and the dedup record kept.
C9_ProvisioningFailure ==
  [][\A t \in tasks \ tasks' :
       /\ t.pc = "cp_post" /\ faults' # faults =>
             /\ ledger' = ledger /\ cache' = cache /\ lastResp' = lastResp
             /\ \E t2 \in tasks' \ tasks :
                  t2.req = t.req /\ t2.proj = ProvFailed /\ t2.pc = Continuation(t.ev)
       /\ t.proj = ProvFailed =>
             /\ ledger' = ledger /\ provReqs' = provReqs
             /\ (\A t2 \in tasks' : t2.req # t.req) /\ ~Threw(t) =>
                  /\ lastResp'.req = t.req /\ lastResp'.code = 200
                  /\ ~lastResp'.duplicate /\ cache' = cache]_vars

\* a handler whose Provisioner call failed has answered 200; its invoice is
\* paid and has no project
C9_Witness ==
  /\ lastResp.proj = ProvFailed /\ lastResp.code = 200
  /\ CacheHas(cache, lastResp.ev)
  /\ \E i \in 1..Len(invoices) :
       /\ invoices[i].stripeCheckoutSessionId = Event(lastResp.ev).object.session
       /\ invoices[i].status = "paid" /\ invoices[i].projectId = NoId
  /\ \E k \in 1..Len(provReqs) : provReqs[k].req = lastResp.req

Kinds(notes) == [i \in 1..Len(notes) |-> notes[i].kind]

\* C10: the notifications of a handler, whichever of them fail, leave the
\* Ledger as it is; the handler answers 200 {received: true}, the dedup
\* record is kept, and every notification of the handler was attempted.
C10_NotificationFailure ==
  [][\A t \in tasks \ tasks' :
       t.pc \in NotifyPcs =>
         /\ ledger' = ledger /\ provReqs' = provReqs /\ cache' = cache
         /\ lastResp'.req = t.req /\ lastResp'.code = 200 /\ ~lastResp'.duplicate
         /\ Kinds(lastResp'.notes) \in
              {NotificationPlan(t, StaffUserIds), NotificationPlan(t, {})}]_vars

\* a notification failed and a later one of the same handler was sent
C10_Witness ==
  /\ lastResp.code = 200
  /\ \E i, j \in 1..Len(lastResp.notes) :
       i < j /\ ~lastResp.notes[i].sent /\ lastResp.notes[j].sent

\* this step answers a request that did not pass the Event Verifier
RejectedAtBoundary ==
  nDeliv' = nDeliv + 1 /\ lastResp'.req = nDeliv' /\ lastResp'.path \in Rejections

\* C11 as stated: a request without signature header, with a signature that
\* does not verify, or with a body that cannot be decoded is answered 400,
\* and the Dedup Cache, the running handlers and the Ledger stay as they are.
C11_AsStated ==
  [][RejectedAtBoundary =>
        /\ lastResp'.code = 400
        /\ cache' = cache /\ tasks' = tasks /\ handled' = handled
        /\ ledger' = ledger /\ provReqs' = provReqs]_vars

\* the age of the record that the Dedup Cache holds for e
RecordAge(e) == now - CacheGet(cache, e).processedAt
\* this step started the handler of the delivery it received
HandlerRan(e) ==
  \/ \E t \in tasks' \ tasks : t.ev = e /\ t.req = nDeliv'
  \/ lastResp'.req = nDeliv' /\ lastResp'.ev = e /\ ~lastResp'.duplicate

\* C12: a delivery of an event whose cached record is older than the TTL
\* of 24 h acquires: it is not answered as a duplicate, the handler runs and
\* the record that is left for the event is stamped now (none is left only
\* when the handler threw at once and the route released it); a delivery
\* while the record is at most 24 h old is answered as a duplicate and
\* changes neither the cache nor the handlers.
C12_TtlExpiry ==
  [][\A e \in feed :
        Delivered(e) /\ CacheHas(cache, e) =>
          IF RecordAge(e) > EVENT_TTL_MS
          THEN /\ ~AnsweredDuplicate /\ HandlerRan(e)
               /\ CacheHas(cache', e) \/ lastResp'.code = 500
               /\ CacheHas(cache', e) =>
                     /\ CacheGet(cache', e).processedAt = now
                     /\ Cardinality({i \in 1..Len(cache') : cache'[i].eventId = e}) = 1
          ELSE AnsweredDuplicate /\ cache' = cache /\ tasks' = tasks]_vars

\* two events were handled, the TTL went by and no cleanup ran: the record
\* of one is still the stale one, the other was delivered again and acquired
C12_Witness ==
  \E e1, e2 \in handled :
    /\ e1 # e2
    /\ CacheHas(cache, e2) /\ now - CacheGet(cache, e2).processedAt > EVENT_TTL_MS
    /\ CacheHas(cache, e1) /\ CacheGet(cache, e1).processedAt = now
    /\ acquired[e1].at = now /\ ~acquired[e1].released
    /\ \/ \E t \in tasks : t.ev = e1 /\ t.ts = now
       \/ lastResp.ev = e1 /\ lastResp.code = 200 /\ ~lastResp.duplicate /\ lastResp.req = nDeliv

\* the records the cache holds for ids other than e, and for e when fresh:
\* what markAsProcessed finds when tryAcquire(e) goes on to insert
Before(e) ==
  SelectSeq(cache, LAMBDA r : r.eventId # e \/ ~(now - r.processedAt > EVENT_TTL_MS))
\* the records of Before(e) that are gone after the step
Evicted(e) == {r \in Range(Before(e)) : r.eventId # e /\ ~CacheHas(cache', r.eventId)}
Kept(e) == {r \in Range(Before(e)) : r.eventId # e /\ CacheHas(cache', r.eventId)}

\* C13: an insertion that finds the cache below its maximum evicts nothing;
\* one that finds it at the maximum first evicts a tenth of the maximum, and
\* no evicted record is younger than a kept one; the records kept are not
\* touched. A later delivery of an evicted id acquires again and runs the
\* handler, and a delivery of an id whose record is in the cache and within
\* the TTL is answered as a duplicate.
C13_CapacityEviction ==
  [][\A e \in feed :
       /\ AcquiredTrue(e) =>
             /\ Cardinality(Evicted(e)) =
                  (IF Len(Before(e)) >= MAX_CACHE_SIZE THEN MAX_CACHE_SIZE \div 10 ELSE 0)
             /\ \A r \in Evicted(e) : \A k \in Kept(e) : r.processedAt <= k.processedAt
             /\ \A k \in Kept(e) : CacheGet(cache', k.eventId) = k
             /\ Len(cache') <= MAX_CACHE_SIZE
       /\ Delivered(e) /\ acquired[e].evicted => ~AnsweredDuplicate /\ HandlerRan(e)
       /\ Delivered(e) /\ CacheHas(Before(e), e) =>
             AnsweredDuplicate /\ cache' = cache]_vars

\* the first id of the burst was evicted by the insertion of the last one
\* and has acquired again, which evicted the second
C13_Witness ==
  /\ Len(cache) = MAX_CACHE_SIZE
  /\ cache[Len(cache)].eventId = Burst[2]
  /\ CacheHas(cache, Burst[Len(Burst)])
  /\ acquired[Burst[3]].evicted /\ ~CacheHas(cache, Burst[3])
  /\ ~acquired[Burst[2]].evicted /\ acquired[Burst[2]].at # NoTime

\* the handlers' first lookups, and the rows that the event refers to
LookupPcs ==
  {"eu_select", "ex_select", "pf_select", "ip_selsub", "if_selsub", "su_select", "sd_select"}
Referenced(e) ==
  LET obj == Event(e).object
  IN CASE Event(e).type \in {"checkout.session.completed", "checkout.session.expired"} ->
            {i \in 1..Len(invoices) : invoices[i].stripeCheckoutSessionId = obj.session}
       [] Event(e).type = "payment_intent.payment_failed" ->
            {i \in 1..Len(invoices) : invoices[i].stripePaymentIntentId = obj.payment_intent}
       [] OTHER ->
            {i \in 1..Len(subs) : subs[i].stripeSubscriptionId = obj.subscription}

\* C14: when the first lookup of the handler of checkout.session.expired,
\* payment_intent.payment_failed, invoice.paid, invoice.payment_failed,
\* customer.subscription.updated, customer.subscription.deleted or of an
\* existing-user checkout.session.completed finds no row, the handler ends
\* there: no Ledger row, pending token or Provisioner request changes, no
\* notification is sent, the dedup record stays and the answer is 200
\* {received: true}.
C14_MissingReference ==
  [][\A t \in tasks \ tasks' :
       t.pc \in LookupPcs /\ Referenced(t.ev) = {} /\ ~Threw(t) =>
         /\ ledger' = ledger /\ provReqs' = provReqs /\ pendingAuth' = pendingAuth
         /\ \A t2 \in tasks' : t2.req # t.req
         /\ lastResp'.req = t.req /\ lastResp'.code = 200 /\ ~lastResp'.duplicate
         /\ lastResp'.notes = <<>>
         /\ cache' = cache]_vars

\* no invoice exists: the expiry of the session was acknowledged, and now
\* the completion of the existing user's checkout is, with nothing written
C14_Witness ==
  /\ invoices = <<>> /\ provReqs = <<>>
  /\ "evt_exp" \in handled
  /\ lastResp.ev = "evt_old" /\ lastResp.path = "eu_noinvoice" /\ lastResp.code = 200
  /\ CacheHas(cache, "evt_old")

\* the event types that handleEvent routes to a handler
RoutedTypes ==
  {"checkout.session.completed", "checkout.session.expired",
   "payment_intent.payment_failed", "invoice.paid", "invoice.payment_failed",
   "customer.subscription.updated", "customer.subscription.deleted"}

\* C15: a delivery of payment_intent.succeeded or of an event of a type that
\* has no handler is answered 200 in the same step, with {received: true}
\* alone when it acquired; it suspends no handler, changes no Ledger row,
\* pending token or Provisioner request, sends no notification, and its
\* dedup record is never released.
C15_Acknowledged ==
  [][\A e \in feed :
       Event(e).type \notin RoutedTypes /\ Delivered(e) =>
         /\ lastResp'.req = nDeliv' /\ lastResp'.ev = e /\ lastResp'.code = 200
         /\ lastResp'.duplicate = isDuplicate(cache, e, now)
         /\ lastResp'.notes = <<>>
         /\ tasks' = tasks
         /\ ledger' = ledger /\ provReqs' = provReqs /\ pendingAuth' = pendingAuth
         /\ CacheHas(cache', e) /\ ~acquired'[e].released]_vars

\* payment_intent.succeeded and an event of another type were both
\* acknowledged, the latter just now, while a checkout's handler is suspended
C15_Witness ==
  /\ {"evt_pis", "evt_unk"} \subseteq handled
  /\ lastResp.ev = "evt_unk" /\ lastResp.path = "unhandled" /\ lastResp.code = 200
  /\ ~lastResp.duplicate
  /\ CacheHas(cache, "evt_pis") /\ CacheHas(cache, "evt_unk")
  /\ \E t \in tasks : t.ev = "evt_old"

\* how many notifications of a kind a handler has attempted
CountKind(notes, kind) == Cardinality({i \in 1..Len(notes) : notes[i].kind = kind})

\* C16: the handler of a cancellation that has written the lowered limit is
\* due the alert exactly when the usedStorageBytes of the client's quota row
\* exceeds the storageLimitBytes just written; a handler that wrote no limit
\* (no storage addon, nothing to remove, no quota row, quota access failed)
\* is never due it; and a handler that ends attempts one storage.over_quota
\* notification, of high priority and to the client of the subscription,
\* when it is due, and none when it is not.
C16_OverQuotaAlert ==
  [][/\ \A t2 \in tasks' \ tasks :
          t2.pc = "sd_notify" =>
            IF \E t \in tasks \ tasks' : t.req = t2.req /\ t.pc = "sc_update" /\ faults' = faults
            THEN /\ quotas'[t2.uid].storageLimitBytes = t2.lim
                 /\ Event(t2.ev).object.metaType = "storage_addon"
                 /\ t2.oq = (quotas'[t2.uid].usedStorageBytes >
                                quotas'[t2.uid].storageLimitBytes)
            ELSE ~t2.oq /\ quotas' = quotas
     /\ \A t \in tasks \ tasks' :
          t.pc = "sd_notify" =>
            /\ CountKind(lastResp'.notes, overQuotaNotification(t.uid).type) =
                  (IF t.oq THEN 1 ELSE 0)
            /\ overQuotaNotification(t.uid).priority = "high"
            /\ overQuotaNotification(t.uid).userId =
                  ClientOfSubscription(Event(t.ev).object.subscription)]_vars

\* the cancellation of the addon has left 5.5 GiB used under a limit of
\* 5 GiB, and the alert was sent
C16_Witness ==
  /\ lastResp.ev = "evt_del" /\ lastResp.path = "sd_notify" /\ lastResp.code = 200
  /\ CountKind(lastResp.notes, "storage.over_quota") = 1
  /\ \E i \in 1..Len(lastResp.notes) :
       lastResp.notes[i].kind = "storage.over_quota" /\ lastResp.notes[i].sent
  /\ quotas[CLIENT].usedStorageBytes > quotas[CLIENT].storageLimitBytes

\* the cancellation has left nothing used under the base limit: no alert
C16_WitnessWithin ==
  /\ lastResp.ev = "evt_del" /\ lastResp.path = "sd_notify" /\ lastResp.code = 200
  /\ CountKind(lastResp.notes, "storage.over_quota") = 0
  /\ "evt_sto" \in handled
  /\ quotas[CLIENT].storageLimitBytes = baseStorageBytes
  /\ quotas[CLIENT].usedStorageBytes = 0

\* this step receives a GET /auth/session request for session s
GetArrived(s) ==
  /\ nGets' = nGets + 1
  /\ \/ sessResp'.req = nGets' /\ sessResp'.sid = s
     \/ \E g \in gets' \ gets : g.req = nGets' /\ g.sid = s
\* tokens are staged for s and at most ten minutes old
Usable(s) ==
  pendingAuth[s] # NoAuth /\ now - pendingAuth[s].createdAt <= TOKEN_VALIDITY_MS
\* this step answers the request g from the database path
DbAnswer(g) == g \in gets /\ g \notin gets' /\ sessResp'.req = g.req
PaidFor(s) == {i \in 1..Len(invoices) :
                 invoices[i].stripeCheckoutSessionId = s /\ invoices[i].status = "paid"}

\* C17 as stated: a retrieval of tokens staged within the last ten minutes
\* returns them and consumes the entry; and the database path answers 200
\* exactly when an invoice of the session is paid.
C17_AsStated ==
  [][/\ \A s \in SessionIds :
          GetArrived(s) /\ Usable(s) =>
            sessResp'.tokens = "cached" /\ pendingAuth'[s] = NoAuth
     /\ \A g \in gets : DbAnswer(g) => (sessResp'.code = 200 <=> PaidFor(g.sid) # {})]_vars

\* C17 amended: every retrieval made while the staged entry is at most ten
\* minutes old is answered 200 with the staged tokens and touches no Ledger
\* row; the entry stays while it is at most two minutes old and is deleted
\* by the first retrieval after that. A retrieval that finds no entry, or
\* one older than ten minutes, leaves none and takes the database path,
\* which goes on past the invoice lookup exactly when the invoice of the
\* session is paid, past the user lookup exactly when the owner exists, and
\* answers 200 exactly when it got to insert one refresh token for the
\* owner and no Ledger access failed.
C17_PendingAuthExchange ==
  [][/\ \A s \in SessionIds :
          GetArrived(s) =>
            IF Usable(s)
            THEN /\ sessResp' = [req |-> nGets', sid |-> s, code |-> 200,
                                 tokens |-> "cached", userId |-> pendingAuth[s].userId]
                 /\ gets' = gets /\ ledger' = ledger
                 /\ pendingAuth'[s] =
                      (IF now - pendingAuth[s].createdAt <= TOKEN_GRACE_MS
                       THEN pendingAuth[s] ELSE NoAuth)
            ELSE /\ pendingAuth'[s] = NoAuth
                 /\ sessResp' = sessResp /\ ledger' = ledger
                 /\ \E g \in gets' \ gets : g.req = nGets' /\ g.sid = s /\ g.pc = "gs_selinv"
     /\ \A g \in gets \ gets' :
          faults' = faults =>
            /\ g.pc = "gs_selinv" =>
                  LET found == {i \in 1..Len(invoices) :
                                  invoices[i].stripeCheckoutSessionId = g.sid}
                  IN /\ found # {} /\ found \subseteq PaidFor(g.sid) =>
                          \E g2 \in gets' \ gets : g2.req = g.req /\ g2.inv \in found
                     /\ PaidFor(g.sid) = {} => DbAnswer(g) /\ sessResp'.code # 200
            /\ g.pc = "gs_seluser" =>
                  IF \E i \in 1..Len(users) : users[i].id = invoices[g.inv].clientId
                  THEN \E g2 \in gets' \ gets :
                         g2.req = g.req /\ g2.uid = invoices[g.inv].clientId
                  ELSE DbAnswer(g) /\ sessResp'.code # 200
     /\ \A g \in gets :
          DbAnswer(g) =>
            /\ sessResp'.code = 200 <=> (g.pc = "gs_insert" /\ faults' = faults)
            /\ sessResp'.code = 200 =>
                  /\ sessResp'.tokens = "fresh" /\ sessResp'.userId = g.uid
                  /\ refreshTokens' = Append(refreshTokens, g.uid)
                  /\ pendingAuth' = pendingAuth]_vars

\* the staged tokens of the new client were read and, two minutes old,
\* deleted by a read; the third request got a fresh pair from the Ledger
C17_Witness ==
  /\ sessResp.req = 3 /\ sessResp.sid = "cs_new" /\ sessResp.code = 200
  /\ sessResp.tokens = "fresh"
  /\ now = TOKEN_GRACE_MS + 1
  /\ pendingAuth["cs_new"] = NoAuth
  /\ Len(refreshTokens) = 2
  /\ PaidFor("cs_new") # {}

\* the invoices of a session
InvoicesOf(s) == {i \in 1..Len(invoices) : invoices[i].stripeCheckoutSessionId = s}
\* the owner of the invoice that the request has read is a user
OwnerExists(g) ==
  g.inv # NoId /\ \E u \in 1..Len(users) : users[u].id = invoices[g.inv].clientId

\* C18: a request on the database path is answered 500 when a Ledger
\* access of it fails; otherwise 404 when the session has no invoice, 400
\* when its invoice is not paid, 404 when the invoice is paid and its owner
\* is not a user, and 200 with one refresh token inserted for the owner in
\* the remaining case; it is answered with nothing else, and an answer of
\* 404 or 400 comes with no change of the Ledger or of the staged tokens.
C18_FallbackStatus ==
  [][\A g \in gets \ gets' :
       /\ faults' # faults => DbAnswer(g) /\ sessResp'.code = 500
       /\ faults' = faults =>
             /\ InvoicesOf(g.sid) = {} => DbAnswer(g) /\ sessResp'.code = 404
             /\ InvoicesOf(g.sid) # {} /\ PaidFor(g.sid) = {} =>
                   DbAnswer(g) /\ sessResp'.code = 400
             /\ PaidFor(g.sid) # {} /\ g.inv # NoId /\ ~OwnerExists(g) =>
                   DbAnswer(g) /\ sessResp'.code = 404
             /\ g.pc = "gs_insert" =>
                   /\ OwnerExists(g) /\ g.inv \in InvoicesOf(g.sid)
                   /\ DbAnswer(g) /\ sessResp'.code = 200
                   /\ refreshTokens' = Append(refreshTokens, invoices[g.inv].clientId)
       /\ DbAnswer(g) =>
             /\ sessResp'.code \in {200, 400, 404, 500}
             /\ sessResp'.code = 200 => g.pc = "gs_insert" /\ faults' = faults
             /\ sessResp'.code \in {400, 404} =>
                   ledger' = ledger /\ pendingAuth' = pendingAuth /\ provReqs' = provReqs]_vars

\* the invoice of the existing client's session is paid and the client's
\* user row is gone: 404, and no refresh token was inserted
C18_Witness ==
  /\ sessResp.sid = "cs_old" /\ sessResp.code = 404
  /\ PaidFor("cs_old") # {}
  /\ \A u \in 1..Len(users) : users[u].id # CLIENT
  /\ refreshTokens = <<>>

\* the pending registrations of case A whose metadata names webPlanId growth
CaseAGrowth ==
  {e \in EventIds : /\ Event(e).type = "checkout.session.completed"
                     /\ Branch(e) = "pending"
                     /\ Metadata(e).case = "A"
                     /\ Metadata(e).webPlanId = "growth"}

SessionOf(e) == Session(Event(e).object.session)

\* the status the row takes for a provider status
RowStatus(providerStatus) == IF providerStatus = "trialing" THEN "trialing" ELSE "active"

SubsRowsOf(e) ==
  {i \in 1..Len(subs) : subs[i].stripeSubscriptionId = SessionOf(e).subscription}

\* C19: for a pending registration of case A whose metadata names webPlanId
\* growth, every invoice of the session has planId "growth", and the insert
\* that answers appends exactly such an invoice; when the session carries a
\* subscription id, the insert into clientSubscriptions that is not refused
\* leaves exactly one row keyed to that id, with planId growth and status
\* trialing when the provider says trialing and active for any other
\* provider status; a session without subscription id gets no row.
C19_CaseA ==
  /\ [](\A e \in CaseAGrowth :
          /\ \A i \in InvoicesBySession(SessionOf(e).id) : invoices[i].planId = "growth"
          /\ Cardinality(SubsRowsOf(e)) <= 1
          /\ SessionOf(e).subscription = "" => SubsRowsOf(e) = {}
          /\ \A i \in SubsRowsOf(e) :
                /\ subs[i].planId = "growth"
                /\ subs[i].status =
                     RowStatus(StripeSubscription(SessionOf(e).subscription).status)
          /\ (e \in handled /\ faults = 0) =>
                /\ InvoicesBySession(SessionOf(e).id) # {}
                /\ SessionOf(e).subscription # "" => Cardinality(SubsRowsOf(e)) = 1)
  /\ [][\A t \in tasks \ tasks' :
          (t.ev \in CaseAGrowth /\ faults' = faults) =>
            /\ (t.pc = "pr_invoice" /\ lastResp' = lastResp) =>
                  /\ Len(invoices') = Len(invoices) + 1
                  /\ invoices'[Len(invoices')].planId = "growth"
                  /\ invoices'[Len(invoices')].stripeCheckoutSessionId = SessionOf(t.ev).id
                  /\ invoices'[Len(invoices')].clientId = t.uid
            /\ t.pc = "cs_insert" =>
                  /\ Cardinality(SubsRowsOf(t.ev)') = 1
                  /\ SubsRowsOf(t.ev) = {} =>
                        /\ Len(subs') = Len(subs) + 1
                        /\ subs'[Len(subs')].clientId = invoices[t.inv].clientId]_vars

\* the registration whose metadata also names planId starter and whose
\* subscription is past due has completed: its invoice has planId growth and
\* its only subscription row is active
C19_Witness ==
  /\ "evt_a2" \in handled
  /\ Metadata("evt_a2").planId = "starter"
  /\ StripeSubscription(SessionOf("evt_a2").subscription).status = "past_due"
  /\ \E i \in InvoicesBySession("cs_a2") : invoices[i].planId = "growth"
  /\ \E i \in 1..Len(subs) :
        /\ subs[i].stripeSubscriptionId = "sub_pd"
        /\ subs[i].status = "active"
        /\ subs[i].planId = "growth"

\* the same with the trialing subscription: the row is trialing
C19_WitnessTrialing ==
  /\ "evt_new" \in handled
  /\ \E i \in 1..Len(subs) :
        subs[i].stripeSubscriptionId = "sub_web" /\ subs[i].status = "trialing"

\* the pending registrations of case B whose modulesJson lists the two
\* production modules Pack A and Pack B
CaseBTwoPacks ==
  {e \in EventIds : /\ Event(e).type = "checkout.session.completed"
                     /\ Branch(e) = "pending"
                     /\ Metadata(e).case = "B"
                     /\ Len(Metadata(e).modulesJson) = 2
                     /\ Metadata(e).modulesJson[1].planName = "Pack A"
                     /\ Metadata(e).modulesJson[2].planName = "Pack B"
                     /\ \A k \in 1..2 : Metadata(e).modulesJson[k].type = "production"}

RequestsFor(e) ==
  {k \in 1..Len(provReqs) :
      provReqs[k].invoiceId \in InvoicesBySession(SessionOf(e).id)}

\* C20: for a pending registration of case B whose modulesJson lists the
\* production modules Pack A and Pack B, every invoice of the session has
\* planName "Pack A + Pack B", and every request sent to the Provisioner for
\* it is the create-with-modules request with two modules, one per entry of
\* modulesJson; the request is sent by the step that follows the invoice,
\* whether the Provisioner then answers or fails.
C20_CaseB ==
  /\ [](\A e \in CaseBTwoPacks :
          /\ \A i \in InvoicesBySession(SessionOf(e).id) :
                invoices[i].planName = "Pack A + Pack B"
          /\ \A k \in RequestsFor(e) :
                /\ provReqs[k].shape = "create-with-modules:dynamic"
                /\ provReqs[k].modules = Len(Metadata(e).modulesJson)
                /\ provReqs[k].modules = 2
          /\ e \in handled => RequestsFor(e) # {})
  /\ [][\A t \in tasks \ tasks' :
          t.ev \in CaseBTwoPacks =>
            /\ (t.pc = "pr_invoice" /\ lastResp' = lastResp /\ faults' = faults) =>
                  /\ Len(invoices') = Len(invoices) + 1
                  /\ invoices'[Len(invoices')].planName = "Pack A + Pack B"
                  /\ \E t2 \in tasks' : t2.req = t.req /\ t2.pc = "cp_post"
            /\ t.pc = "cp_post" =>
                  /\ Len(provReqs') = Len(provReqs) + 1
                  /\ provReqs'[Len(provReqs')].modules = 2
                  /\ provReqs'[Len(provReqs')].invoiceId = t.inv]_vars

\* the registration has completed: its invoice is named Pack A + Pack B and
\* one request for two modules went to the Provisioner
C20_Witness ==
  /\ "evt_b2" \in handled
  /\ \E i \in InvoicesBySession("cs_b2") : invoices[i].planName = "Pack A + Pack B"
  /\ \E k \in RequestsFor("evt_b2") :
        provReqs[k].modules = 2 /\ provReqs[k].shape = "create-with-modules:dynamic"

\* the completed checkouts of a client who is signed in: neither a storage
\* addon nor a pending registration
ExistingUserEvents ==
  {e \in EventIds : Event(e).type = "checkout.session.completed" /\ Branch(e) = "existing"}

\* the task of request t.req after the step
TaskAfter(t) == {t2 \in tasks' : t2.req = t.req}

\* C21: for a completed checkout with neither type storage_addon nor
\* pendingUserEmail whose session has a pre-created invoice, the handler's
\* update sets exactly that invoice to paid, with paidAt and the session's
\* payment intent id, and goes on to the shared creation procedure for that
\* invoice (here the Provisioner call, which sends one request for it); no
\* step of the handler inserts an invoice, a user or a refresh token, and a
\* handler that completed has sent the Provisioner a request for the invoice.
C21_ExistingUserPayment ==
  [][\A t \in tasks \ tasks' :
       t.ev \in ExistingUserEvents =>
         /\ Len(invoices') = Len(invoices)
         /\ users' = users /\ refreshTokens' = refreshTokens /\ pendingAuth' = pendingAuth
         /\ (t.pc = "eu_select" /\ faults' = faults
                /\ InvoicesBySession(SessionOf(t.ev).id) # {}) =>
               \E t2 \in TaskAfter(t) :
                 t2.pc = "eu_update" /\ t2.inv \in InvoicesBySession(SessionOf(t.ev).id)
         /\ (t.pc = "eu_update" /\ faults' = faults) =>
               /\ invoices' = [invoices EXCEPT
                                 ![t.inv].status = "paid", ![t.inv].paidAt = t.ts,
                                 ![t.inv].stripePaymentIntentId =
                                    SessionOf(t.ev).payment_intent]
               /\ t.ts # NoTime /\ SessionOf(t.ev).payment_intent # ""
               /\ invoices[t.inv].stripeCheckoutSessionId = SessionOf(t.ev).id
               /\ \E t2 \in TaskAfter(t) :
                     /\ t2.inv = t.inv
                     /\ t2.pc = createProjectAndWorkflow(t.ev, invoices'[t.inv])
                     /\ t2.pc = "cp_post"
         /\ t.pc = "cp_post" =>
               /\ provReqs' = Append(provReqs, ProvisionRequest(t))
               /\ provReqs'[Len(provReqs')].invoiceId = t.inv
         /\ (t.pc = "eu_notify" /\ t.ev \in handled') =>
               \E k \in 1..Len(provReqs) : provReqs[k].invoiceId = t.inv]_vars

\* the payment of the signed-in client has been handled: the pre-created
\* invoice is paid with its payment intent, it is still the only invoice, no
\* user was added and the Provisioner was asked once for the invoice
C21_Witness ==
  /\ "evt_old" \in handled
  /\ lastResp.ev = "evt_old" /\ lastResp.path = "eu_notify"
  /\ Len(invoices) = 1
  /\ invoices[1].status = "paid" /\ invoices[1].paidAt # NoTime
  /\ invoices[1].stripePaymentIntentId = "pi_1"
  /\ users = InitUsers
  /\ Len(provReqs) = 1 /\ provReqs[1].invoiceId = 1

\* what the claim compares of a client_subscriptions row
RowView(r) ==
  <<r.status, r.currentPeriodStart, r.currentPeriodEnd, r.cancelAtPeriodEnd, r.trialEnd>>

\* the row that customer.subscription.updated event e writes over row r
UpdatedView(e, r) ==
  <<MapStatus(Event(e).object.status, r.status),
    Event(e).object.current_period_start * 1000, Event(e).object.current_period_end * 1000,
    Event(e).object.cancel_at_period_end,
    IF Event(e).object.trial_end # 0 THEN Event(e).object.trial_end * 1000 ELSE NoTime>>

\* the checkout of the new client and the update of its subscription have
\* both been handled, each once and without a failing call, and nothing else
\* about the subscription has arrived
OnlyCheckoutAndUpdate ==
  /\ {"evt_new", "evt_upd"} \subseteq handled
  /\ tasks = {} /\ faults = 0 /\ advances = 0
  /\ \A e \in feed \ {"evt_new", "evt_upd"} : acquired[e].at = NoTime
  /\ SubsByStripeId("sub_web") # {}

\* C22 as stated: once checkout.session.completed and
\* customer.subscription.updated for the same subscription have both been
\* handled, the subscription row (status, period bounds, cancelAtPeriodEnd,
\* trialEnd) is the one reached when the checkout is processed first, that
\* is the overwrite by the update, in whatever order and interleaving the
\* two handlers ran.
C22_AsStated ==
  OnlyCheckoutAndUpdate =>
    \A i \in SubsByStripeId("sub_web") : RowView(subs[i]) = UpdatedView("evt_upd", subs[i])

\* the checkout was processed first: the row is the update's overwrite
C22_CheckoutFirst ==
  /\ OnlyCheckoutAndUpdate
  /\ \A i \in SubsByStripeId("sub_web") : RowView(subs[i]) = UpdatedView("evt_upd", subs[i])

\* the awaits of each branch of handleCheckoutSessionCompleted
StoragePcs == {"sa_retrieve", "sa_invoice", "sa_sub", "sa_selquota", "sa_updquota",
               "sa_seluser", "sa_notify"}
PendingPcs == {"pr_user", "pr_token", "pr_invoice", "pr_notify"}
ExistingPcs == {"eu_select", "eu_update", "eu_seluser", "eu_notify"}
CreationPcs == {"cs_retrieve", "cs_insert", "cp_post", "cp_update"}

\* the branch the dispatch order gives an event's metadata
FirstMatch(e) ==
  IF Metadata(e).type = "storage_addon" THEN StoragePcs
  ELSE IF Metadata(e).pendingUserEmail # "" THEN PendingPcs \cup CreationPcs
  ELSE ExistingPcs \cup CreationPcs

\* completed checkouts whose metadata carries both markers
BothMarked ==
  {e \in EventIds : /\ Event(e).type = "checkout.session.completed"
                     /\ Metadata(e).type = "storage_addon"
                     /\ Metadata(e).pendingUserEmail # ""}

\* C23: the handler of a completed checkout is only ever inside the branch
\* that matches first in the order storage addon, pending registration,
\* existing-user payment; for metadata with both type storage_addon and
\* pendingUserEmail no step of the handler changes the users, the refresh
\* tokens, the staged tokens, a row the invoices table already held or the
\* requests sent to the Provisioner.
C23_FirstMatchWins ==
  /\ [](\A t \in tasks :
          Event(t.ev).type = "checkout.session.completed" => t.pc \in FirstMatch(t.ev))
  /\ [][\A t \in tasks \ tasks' :
          t.ev \in BothMarked =>
            /\ users' = users /\ refreshTokens' = refreshTokens
            /\ pendingAuth' = pendingAuth /\ provReqs' = provReqs
            /\ \A i \in 1..Len(invoices) : invoices'[i] = invoices[i]
            /\ (t.ev \in handled' \ handled) => lastResp'.path = "sa_notify"]_vars

\* the event with both markers has been handled: the invoice the table held
\* for its session is still pending, the storage invoice and the
\* subscription were added and the quota created, and there is no new
\* user, no refresh token and no request to the Provisioner
C23_Witness ==
  /\ "evt_both" \in handled
  /\ Len(invoices) = 2
  /\ invoices[1].stripeCheckoutSessionId = "cs_both" /\ invoices[1].status = "pending"
  /\ invoices[2].type = "storage_addon" /\ invoices[2].stripeCheckoutSessionId = "cs_both"
  /\ SubsByStripeId("sub_both") # {}
  /\ quotas[CLIENT].storageLimitBytes = baseStorageBytes + GB
  /\ users = InitUsers /\ refreshTokens = <<>> /\ provReqs = <<>>

\* the request shape the claim's wording gives: the legacy shape whenever the
\* module count is absent and both plan ids are present
ShapeAsStated(e) ==
  IF Metadata(e).modulesJson # NoModules /\ parseInt(Or(Metadata(e).moduleCount, "0")) > 0
  THEN "create-with-modules:dynamic"
  ELSE IF Metadata(e).moduleCount = "" /\ Metadata(e).webPlanId # ""
          /\ Metadata(e).productionPlanId # ""
  THEN "create-with-modules:legacy"
  ELSE "create-with-workflow"

\* the request shape createProject chooses: the legacy shape needs case C
ShapeChosen(e) ==
  IF Metadata(e).modulesJson # NoModules /\ parseInt(Or(Metadata(e).moduleCount, "0")) > 0
  THEN "create-with-modules:dynamic"
  ELSE IF Or(Metadata(e).case, "A") = "C" /\ Metadata(e).webPlanId # ""
          /\ Metadata(e).productionPlanId # ""
  THEN "create-with-modules:legacy"
  ELSE "create-with-workflow"

RequestsOfHandling(req) == {k \in 1..Len(provReqs) : provReqs[k].req = req}

\* what holds of the requests whatever the shape: one per handling whose
\* invoice carries planId and planName, none otherwise, and projectId written
\* only by the step that follows a successful answer
OneRequestAndProject ==
  /\ [](/\ \A k1, k2 \in 1..Len(provReqs) : provReqs[k1].req = provReqs[k2].req => k1 = k2
        /\ \A t \in tasks : t.pc = "cp_update" =>
              /\ t.proj \in RequestsOfHandling(t.req)
              /\ provReqs[t.proj].invoiceId = t.inv
        /\ \A i \in 1..Len(invoices) : invoices[i].projectId # NoId =>
              /\ invoices[i].projectId \in 1..Len(provReqs)
              /\ provReqs[invoices[i].projectId].invoiceId = i)
  /\ [][\A t \in tasks \ tasks' :
          /\ (t.pc \in {"pr_notify", "eu_notify"} /\ t.ev \in handled') =>
                Cardinality(RequestsOfHandling(t.req)) =
                   IF invoices[t.inv].planId # "" /\ invoices[t.inv].planName # ""
                   THEN 1 ELSE 0
          /\ t.pc = "cp_post" =>
                /\ invoices[t.inv].planId # "" /\ invoices[t.inv].planName # ""
                /\ Len(provReqs') = Len(provReqs) + 1
                /\ faults' # faults =>
                      /\ invoices' = invoices
                      /\ \A t2 \in TaskAfter(t) : t2.pc # "cp_update"
          /\ t.pc # "cp_post" => provReqs' = provReqs
          /\ (\E i \in 1..Len(invoices) : invoices'[i].projectId # invoices[i].projectId) =>
                /\ t.pc = "cp_update"
                /\ invoices' = [invoices EXCEPT ![t.inv].projectId = t.proj]]_vars

C24_WitnessCaseB ==
  /\ "evt_ab" \in handled
  /\ Len(provReqs) = 1 /\ provReqs[1].shape = "create-with-workflow"

\* the paid invoice carries no plan: the handler completed without a request
C24_WitnessNoPlan ==
  /\ "evt_old" \in handled /\ lastResp.path = "eu_notify"
  /\ invoices[1].status = "paid" /\ invoices[1].planId = ""
  /\ provReqs = <<>>

\* the Provisioner call failed: the request was sent and no project written
C24_WitnessFailed ==
  /\ "evt_c" \in handled
  /\ Len(provReqs) = 1
  /\ \A i \in 1..Len(invoices) : invoices[i].projectId = NoId

\* the payment intents of the recurring charges the provider reports
RecurringPaymentIntents ==
  {Event(e).object.payment_intent :
     e \in {x \in EventIds : /\ Event(x).type = "invoice.paid"
                              /\ Event(x).object.billing_reason # "subscription_create"}}

\* the rows handleInvoicePaid inserted for payment intent p
RecurringRows(p) == {i \in InvoicesByPaymentIntent(p) : invoices[i].type = "recurring"}

\* C25 as stated: however many invoice.paid events with the same payment
\* intent are delivered, under whatever event ids and interleaving of their
\* handlers, at most one invoice row is inserted for that payment intent.
C25_AsStated ==
  \A p \in RecurringPaymentIntents : Cardinality(RecurringRows(p)) <= 1

\* one delivery after the other: the second handler finds the row and stops
C25_Sequential ==
  /\ {"evt_ipr", "evt_ipr2"} \subseteq handled
  /\ lastResp.path = "ip_existing"
  /\ Cardinality(RecurringRows("pi_r")) = 1

\* two events for the same charge, a millisecond apart, both selected before
\* either inserted: two rows for one payment intent
C25_Interleaved ==
  /\ {"evt_ipr", "evt_ipr2"} \subseteq handled
  /\ now = 1 /\ faults = 0
  /\ Cardinality(RecurringRows("pi_r")) = 2

\* the completed checkouts of a storage addon
StorageEvents ==
  {e \in EventIds : Event(e).type = "checkout.session.completed" /\ Branch(e) = "storage"}

\* this step is the awaited call of t answering without error
CallReturned(t) == faults' = faults /\ \E t2 \in tasks' : t2.req = t.req /\ t2.pc # t.pc

\* C26: in the handling of a storage-addon checkout the insert into invoices
\* appends one paid invoice of the session for the client, the insert into
\* client_subscriptions appends one row keyed by the session's subscription
\* id, and the quota write adds exactly storageGb GiB to the limit of the
\* client's quota and leaves its used bytes and file count alone, or, when
\* the client has none, creates it with 5 GiB + storageGb GiB, 0 used bytes
\* and 0 files; each of these steps changes nothing else in the Ledger, the
\* other steps of the handler change nothing, and a handler that completed
\* leaves its paid invoice and exactly one row for the subscription id.
C26_StorageAddonPurchase ==
  [][\A t \in tasks \ tasks' :
       t.ev \in StorageEvents =>
         LET s == SessionOf(t.ev)
             c == s.metadata.clientId
             add == parseInt(s.metadata.storageGb) * GB
         IN
         /\ users' = users /\ refreshTokens' = refreshTokens /\ provReqs' = provReqs
         /\ \A i \in 1..Len(invoices) : invoices'[i] = invoices[i]
         /\ \A i \in 1..Len(subs) : subs'[i] = subs[i]
         /\ (t.pc = "sa_invoice" /\ CallReturned(t)) =>
               /\ Len(invoices') = Len(invoices) + 1
               /\ invoices'[Len(invoices')].status = "paid"
               /\ invoices'[Len(invoices')].paidAt # NoTime
               /\ invoices'[Len(invoices')].stripeCheckoutSessionId = s.id
               /\ invoices'[Len(invoices')].clientId = c
               /\ subs' = subs /\ quotas' = quotas
         /\ (t.pc = "sa_sub" /\ CallReturned(t)) =>
               /\ Len(subs') = Len(subs) + 1
               /\ subs'[Len(subs')].stripeSubscriptionId = s.subscription
               /\ subs'[Len(subs')].clientId = c
               /\ invoices' = invoices /\ quotas' = quotas
         /\ (t.pc = "sa_updquota" /\ CallReturned(t)) =>
               /\ invoices' = invoices /\ subs' = subs
               /\ quotas' = [quotas EXCEPT ![c] =
                     IF QuotaExists(c)
                     THEN [quotas[c] EXCEPT !.storageLimitBytes = @ + add]
                     ELSE [storageLimitBytes |-> 5 * GB + add,
                           usedStorageBytes |-> 0, fileCount |-> 0]]
         /\ (t.pc \notin {"sa_invoice", "sa_sub", "sa_updquota"} \/ ~CallReturned(t)) =>
               ledger' = ledger
         /\ (t.pc = "sa_notify" /\ t.ev \in handled') =>
               /\ invoices[t.inv].status = "paid"
               /\ invoices[t.inv].stripeCheckoutSessionId = s.id
               /\ Cardinality(SubsByStripeId(s.subscription)) = 1
               /\ QuotaExists(c)]_vars

\* the client's quota of 6 GiB with 5.5 GiB used in 3 files has become one
\* of 7 GiB with the same use, after one handled purchase of 1 GiB
C26_Witness ==
  /\ "evt_sto" \in handled /\ lastResp.path = "sa_notify"
  /\ quotas[CLIENT] = [storageLimitBytes |-> 7 * GB,
                       usedStorageBytes |-> 5 * GB + GB \div 2, fileCount |-> 3]
  /\ Cardinality(InvoicesBySession("cs_sto")) = 1
  /\ Cardinality(SubsByStripeId("sub_sto")) = 1

\* the client had no quota: it was created with 5 GiB + 1 GiB and no use
C26_WitnessCreated ==
  /\ "evt_sto" \in handled
  /\ quotas[CLIENT] = [storageLimitBytes |-> 6 * GB, usedStorageBytes |-> 0, fileCount |-> 0]

\* C27: in the handling of customer.subscription.deleted for a known
\* subscription the update sets status cancelled and cancelledAt on the rows
\* of that subscription and nothing else; the handler goes on to the quota
\* only when the provider metadata has type storage_addon (and storageGb
\* removes something), computes the new limit as the limit read minus
\* storageGb GiB, not below 5 GiB, and writes it; for every other
\* subscription no step changes a quota; a failing quota select or update
\* leaves the rows cancelled and the quota as it is, and the handler goes on
\* to its notifications without throwing.
C27_SubscriptionDeleted ==
  [][\A t \in tasks \ tasks' :
       Event(t.ev).type = "customer.subscription.deleted" =>
         LET obj == Event(t.ev).object
             isAddon == obj.metaType = "storage_addon"
             remove == NumberOrZero(obj.metaStorageGb) * GB
             rows == SubsByStripeId(obj.subscription)
         IN
         /\ invoices' = invoices /\ users' = users /\ refreshTokens' = refreshTokens
         /\ provReqs' = provReqs
         /\ ~isAddon => quotas' = quotas
         /\ (t.pc = "sd_update" /\ CallReturned(t)) =>
               /\ rows # {} /\ t.ts # NoTime
               /\ subs' = [i \in 1..Len(subs) |->
                             IF i \in rows
                             THEN [subs[i] EXCEPT !.status = "cancelled", !.cancelledAt = t.ts]
                             ELSE subs[i]]
               /\ quotas' = quotas
               /\ \A t2 \in TaskAfter(t) :
                     t2.pc = IF isAddon /\ remove > 0 THEN "sc_selquota" ELSE "sd_notify"
         /\ (t.pc = "sc_selquota" /\ CallReturned(t)) =>
               /\ isAddon /\ ledger' = ledger
               /\ \A t2 \in TaskAfter(t) :
                     IF QuotaExists(t.uid)
                     THEN /\ t2.pc = "sc_update"
                          /\ t2.lim = Max(5 * GB, quotas[t.uid].storageLimitBytes - remove)
                     ELSE t2.pc = "sd_notify"
         /\ (t.pc = "sc_update" /\ CallReturned(t)) =>
               /\ isAddon /\ t.lim >= 5 * GB
               /\ quotas' = [quotas EXCEPT ![t.uid].storageLimitBytes = t.lim]
               /\ subs' = subs
         /\ (t.pc \in {"sc_selquota", "sc_update"} /\ faults' # faults) =>
               /\ ledger' = ledger /\ lastResp' = lastResp
               /\ \A i \in rows : subs[i].status = "cancelled"
               /\ \E t2 \in TaskAfter(t) : t2.pc = "sd_notify"
         /\ t.pc \notin {"sd_update", "sc_update"} => ledger' = ledger]_vars

\* the storage addon of 2 GiB was cancelled for a client whose limit was
\* 6 GiB: the row is cancelled and the limit is 5 GiB, not 4
C27_Witness ==
  /\ "evt_del" \in handled
  /\ \E i \in SubsByStripeId("sub_sto") :
        subs[i].status = "cancelled" /\ subs[i].cancelledAt # NoTime
  /\ quotas[CLIENT].storageLimitBytes = 5 * GB
  /\ quotas[CLIENT].usedStorageBytes = 5 * GB + GB \div 2

\* the quota call failed: the handler answered 200, the row is cancelled and
\* the limit is the one before
C27_WitnessError ==
  /\ "evt_del" \in handled /\ lastResp.ev = "evt_del" /\ lastResp.code = 200
  /\ faults = 1
  /\ \E i \in SubsByStripeId("sub_sto") : subs[i].status = "cancelled"
  /\ quotas[CLIENT].storageLimitBytes = 7 * GB

\* the web subscription was cancelled: no quota was looked at
C27_WitnessOther ==
  /\ "evt_delw" \in handled
  /\ \E i \in SubsByStripeId("sub_web") : subs[i].status = "cancelled"

\* the stored status the claim gives for a provider status
Mirror(providerStatus, stored) ==
  CASE providerStatus = "active" -> "active"
    [] providerStatus = "past_due" -> "past_due"
    [] providerStatus = "canceled" -> "cancelled"
    [] providerStatus = "trialing" -> "trialing"
    [] providerStatus = "unpaid" -> "past_due"
    [] OTHER -> stored

\* the row that customer.subscription.updated event e makes of row r
Mirrored(e, r) ==
  [r EXCEPT !.status = Mirror(Event(e).object.status, r.status),
            !.currentPeriodStart = Event(e).object.current_period_start * 1000,
            !.currentPeriodEnd = Event(e).object.current_period_end * 1000,
            !.cancelAtPeriodEnd = Event(e).object.cancel_at_period_end,
            !.trialEnd = IF Event(e).object.trial_end # 0
                         THEN Event(e).object.trial_end * 1000 ELSE NoTime]

\* C28: the handler of customer.subscription.updated changes nothing but the
\* rows of the event's subscription; its update makes each of them the
\* mirror of the event: status active, past_due, cancelled, trialing,
\* past_due for provider status active, past_due, canceled, trialing, unpaid
\* and the stored status for any other, period bounds, cancelAtPeriodEnd and
\* trialEnd from the event, every other column as it was; it answers
\* without sending a notification; mirroring the row again gives the same
\* row, and a second handling that finds the row as the first left it
\* changes nothing.
C28_UpdatedMirror ==
  [][\A t \in tasks \ tasks' :
       Event(t.ev).type = "customer.subscription.updated" =>
         LET rows == SubsByStripeId(Event(t.ev).object.subscription)
         IN
         /\ invoices' = invoices /\ quotas' = quotas /\ users' = users
         /\ refreshTokens' = refreshTokens /\ provReqs' = provReqs
         /\ pendingAuth' = pendingAuth
         /\ t.pc # "su_update" => subs' = subs
         /\ (t.ev \in handled' /\ lastResp'.req = t.req) => lastResp'.notes = <<>>
         /\ (t.pc = "su_update" /\ faults' = faults) =>
               /\ rows # {}
               /\ t.ev \in handled' /\ lastResp'.req = t.req /\ lastResp'.code = 200
               /\ subs' = [i \in 1..Len(subs) |->
                             IF i \in rows THEN Mirrored(t.ev, subs[i]) ELSE subs[i]]
               /\ \A i \in rows : Mirrored(t.ev, subs'[i]) = subs'[i]
               /\ (\A i \in rows : Mirrored(t.ev, subs[i]) = subs[i]) => subs' = subs]_vars

\* the update with provider status unpaid was handled: the trialing row is
\* past_due with the event's period
C28_Witness ==
  /\ "evt_uu" \in handled
  /\ \E i \in SubsByStripeId("sub_web") :
        /\ subs[i].status = "past_due"
        /\ subs[i].currentPeriodStart = 130000 /\ subs[i].currentPeriodEnd = 160000
        /\ subs[i].trialEnd = NoTime /\ ~subs[i].cancelAtPeriodEnd
        /\ subs[i].planId = "growth"

\* a provider status outside the five: the stored status stays trialing
C28_WitnessOther ==
  /\ "evt_up" \in handled
  /\ \E i \in SubsByStripeId("sub_web") :
        subs[i].status = "trialing" /\ subs[i].currentPeriodEnd = 160000

\* the same event handled twice, a day apart
C28_WitnessTwice ==
  /\ "evt_uc" \in handled /\ lastResp.ev = "evt_uc" /\ lastResp.path = "su_updated"
  /\ acquired["evt_uc"].at > EVENT_TTL_MS
  /\ \E i \in SubsByStripeId("sub_web") : subs[i].status = "cancelled"

\* the invoice.payment_failed events whose provider invoice has no subscription
FailedWithoutSubscription ==
  {e \in EventIds : Event(e).type = "invoice.payment_failed" /\ Event(e).object.subscription = ""}

\* C29: in the handling of invoice.payment_failed for a subscription the
\* Ledger knows, the update sets the status of the subscription's rows to
\* past_due and nothing else, the insert appends one invoice with status
\* failed for the client and the event's payment intent, no other step
\* writes, and a handler that completed has inserted its failed invoice;
\* an event whose provider invoice has no subscription is answered 200
\* without starting any Ledger access.
C29_RecurringPaymentFailed ==
  /\ [](\A t \in tasks : t.ev \notin FailedWithoutSubscription)
  /\ [][(nDeliv' = nDeliv + 1 /\ lastResp'.req = nDeliv'
           /\ lastResp'.ev \in FailedWithoutSubscription /\ ~lastResp'.duplicate) =>
          /\ ledger' = ledger /\ provReqs' = provReqs /\ tasks' = tasks
          /\ lastResp'.code = 200 /\ lastResp'.path = "if_nosubscription"]_vars
  /\ [][\A t \in tasks \ tasks' :
          Event(t.ev).type = "invoice.payment_failed" =>
            LET obj == Event(t.ev).object
                rows == SubsByStripeId(obj.subscription)
            IN
            /\ quotas' = quotas /\ users' = users /\ refreshTokens' = refreshTokens
            /\ provReqs' = provReqs
            /\ (t.pc = "if_selsub" /\ CallReturned(t)) => rows # {}
            /\ (t.pc = "if_updsub" /\ CallReturned(t)) =>
                  /\ subs' = [i \in 1..Len(subs) |->
                                IF i \in rows THEN [subs[i] EXCEPT !.status = "past_due"]
                                ELSE subs[i]]
                  /\ rows # {}
                  /\ invoices' = invoices
            /\ (t.pc = "if_insert" /\ CallReturned(t)) =>
                  /\ Len(invoices') = Len(invoices) + 1
                  /\ \A i \in 1..Len(invoices) : invoices'[i] = invoices[i]
                  /\ invoices'[Len(invoices')].status = "failed"
                  /\ invoices'[Len(invoices')].clientId = t.uid
                  /\ invoices'[Len(invoices')].stripePaymentIntentId = obj.payment_intent
                  /\ \A t2 \in TaskAfter(t) : t2.inv = Len(invoices')
                  /\ subs' = subs
            /\ (t.pc \notin {"if_updsub", "if_insert"} \/ ~CallReturned(t)) =>
                  ledger' = ledger
            /\ (t.pc = "if_notify" /\ t.ev \in handled') =>
                  /\ t.inv \in 1..Len(invoices)
                  /\ invoices[t.inv].type = "recurring_failed"
                  /\ invoices[t.inv].stripePaymentIntentId = obj.payment_intent]_vars

\* the failed recurring charge of the new client was handled: its
\* subscription is past_due and one failed invoice records the charge
C29_Witness ==
  /\ "evt_ipf" \in handled /\ lastResp.ev = "evt_ipf" /\ lastResp.path = "if_notify"
  /\ \E i \in SubsByStripeId("sub_web") : subs[i].status = "past_due"
  /\ Cardinality({i \in 1..Len(invoices) : invoices[i].status = "failed"}) = 1
  /\ \E i \in InvoicesByPaymentIntent("pi_r") : invoices[i].type = "recurring_failed"

\* the failed invoice without subscription was acknowledged
C29_WitnessNoSubscription ==
  /\ "evt_ipf0" \in handled /\ lastResp.ev = "evt_ipf0" /\ lastResp.code = 200
  /\ lastResp.path = "if_nosubscription"

\* the pending registrations without password hash whose authMethod is
\* neither google nor oauth, and those of OAuth users without password hash
Unvalidated ==
  {e \in EventIds : /\ Event(e).type = "checkout.session.completed"
                    /\ Branch(e) = "pending"
                    /\ Metadata(e).pendingUserHashedPassword = ""
                    /\ ~isOAuthUser(e)}
OAuthWithoutPassword ==
  {e \in EventIds : /\ Event(e).type = "checkout.session.completed"
                    /\ Branch(e) = "pending"
                    /\ Metadata(e).pendingUserHashedPassword = ""
                    /\ isOAuthUser(e)}

\* C30: a pending registration without password hash whose authMethod is
\* neither google nor oauth is answered 500 at its delivery, with the
\* Ledger, the pending-auth map and the Provisioner requests as they were,
\* no handler left running and no dedup record kept; no user with its
\* email, no invoice of its session and no pending-auth entry ever exists.
\* For authMethod google or oauth without password hash the insert of the
\* user stores a non-empty password hash, and every user has one.
C30_PendingValidation ==
  /\ [](\A e \in Unvalidated \cap feed :
          /\ e \notin CacheIds(cache) /\ e \notin handled
          /\ \A t \in tasks : t.ev # e
          /\ ~EmailTaken(Metadata(e).pendingUserEmail)
          /\ InvoicesBySession(SessionOf(e).id) = {}
          /\ pendingAuth[SessionOf(e).id] = NoAuth
          /\ acquired[e].at # NoTime => acquired[e].released)
  /\ [](\A i \in 1..Len(users) : users[i].password # "")
  /\ [][(nDeliv' = nDeliv + 1 /\ lastResp'.req = nDeliv' /\ lastResp'.ev \in Unvalidated) =>
          /\ lastResp'.code = 500 /\ ~lastResp'.duplicate
          /\ lastResp'.path = "pr_validation"
          /\ ledger' = ledger /\ pendingAuth' = pendingAuth /\ provReqs' = provReqs
          /\ tasks' = tasks
          /\ lastResp'.ev \notin CacheIds(cache')
          /\ acquired'[lastResp'.ev].released]_vars
  /\ [][\A t \in tasks \ tasks' :
          (t.ev \in OAuthWithoutPassword /\ t.pc = "pr_user" /\ CallReturned(t)) =>
            /\ Len(users') = Len(users) + 1
            /\ users'[Len(users')].email = Metadata(t.ev).pendingUserEmail
            /\ users'[Len(users')].password # ""
            /\ users'[Len(users')].password # Metadata(t.ev).pendingUserHashedPassword]_vars

\* the registration without password hash and authMethod was delivered and
\* answered 500, twice, with nothing written
C30_Witness ==
  /\ lastResp.ev = "evt_bad" /\ lastResp.code = 500 /\ lastResp.req = 2
  /\ acquired["evt_bad"].released
  /\ users = InitUsers /\ refreshTokens = <<>> /\ provReqs = <<>>

\* the users of the google and of the oauth registration exist
C30_WitnessGoogle ==
  /\ "evt_a3" \in handled
  /\ \E i \in 1..Len(users) : users[i].email = "a3@example.com" /\ users[i].password # ""
C30_WitnessOAuth ==
  /\ "evt_oa" \in handled
  /\ \E i \in 1..Len(users) : users[i].email = "oa@example.com" /\ users[i].password # ""

\* the checkouts that go through createProjectAndWorkflow, and the awaits of
\* createSubscriptionRecord
CreationEvents ==
  {e \in EventIds : Event(e).type = "checkout.session.completed" /\ Branch(e) # "storage"}
SubscriptionPcs == {"cs_retrieve", "cs_insert"}

\* C31: in createProjectAndWorkflow a subscription row is written only by
\* the insert of createSubscriptionRecord, for a session with a subscription
\* id and case A or C, and is the row of that subscription id; a handling of
\* another case or without subscription id never reaches
\* createSubscriptionRecord and no row of its subscription exists.  When the
\* retrieve or the insert fails the handler goes on where a successful
\* insert would have led it, the invoice is paid and unchanged, nothing is
\* answered and the dedup record stays; no 500 names a step of
\* createSubscriptionRecord; a handler that completes answers 200 with its
\* invoice paid and, when the invoice names a plan, with its Provisioner
\* request sent.
C31_SubscriptionFailureTolerated ==
  /\ [](\A e \in feed \cap CreationEvents :
          (caseType(e) \notin {"A", "C"} \/ SessionOf(e).subscription = "") =>
             /\ \A t \in tasks : t.ev = e => t.pc \notin SubscriptionPcs
             /\ SubsByStripeId(SessionOf(e).subscription) = {})
  /\ [][(lastResp' # lastResp /\ lastResp'.code = 500) =>
           lastResp'.path \notin SubscriptionPcs]_vars
  /\ [][\A t \in tasks \ tasks' :
          t.ev \in CreationEvents =>
            /\ subs' # subs =>
                 /\ t.pc = "cs_insert"
                 /\ SessionOf(t.ev).subscription # ""
                 /\ caseType(t.ev) \in {"A", "C"}
                 /\ Len(subs') = Len(subs) + 1
                 /\ \A i \in 1..Len(subs) : subs'[i] = subs[i]
                 /\ subs'[Len(subs')].stripeSubscriptionId = SessionOf(t.ev).subscription
                 /\ subs'[Len(subs')].clientId = invoices[t.inv].clientId
            /\ (t.pc \in SubscriptionPcs /\ (faults' # faults \/ (t.pc = "cs_insert" /\ subs' = subs))) =>
                 /\ ledger' = ledger
                 /\ invoices[t.inv].status = "paid"
                 /\ lastResp' = lastResp /\ cache' = cache /\ provReqs' = provReqs
                 /\ TaskAfter(t) # {}
                 /\ \A t2 \in TaskAfter(t) :
                      /\ t2.pc = AfterSubscription(t.ev, invoices[t.inv])
                      /\ t2.inv = t.inv
            /\ (t.pc \in NotifyPcs /\ t.ev \in handled' /\ lastResp'.req = t.req) =>
                 /\ lastResp'.code = 200
                 /\ invoices[t.inv].status = "paid"
                 /\ (invoices[t.inv].planId # "" /\ invoices[t.inv].planName # "") =>
                      RequestsOfHandling(t.req) # {}]_vars

\* the registration of case A completed although its subscription row
\* could not be written: the one fault is not the Provisioner's (the invoice
\* has its project) and not a notification's
C31_Witness ==
  /\ "evt_new" \in handled /\ lastResp.ev = "evt_new" /\ lastResp.code = 200
  /\ faults = 1 /\ SubsByStripeId("sub_web") = {}
  /\ \A i \in 1..Len(lastResp.notes) : lastResp.notes[i].sent
  /\ Len(provReqs) = 1
  /\ \E i \in InvoicesBySession("cs_new") :
       invoices[i].status = "paid" /\ invoices[i].projectId = 1

\* the checkout of case B with a subscription id completed without a row
C31_WitnessCaseB ==
  /\ "evt_ab" \in handled /\ lastResp.ev = "evt_ab" /\ lastResp.code = 200
  /\ subs = <<>> /\ Len(provReqs) = 1

\* C32: the Dedup Cache never holds more than MAX_CACHE_SIZE records, holds
\* at most one record per event id, and no step adds more than one record.
C32_CacheSizeBound ==
  /\ [](Len(cache) <= MAX_CACHE_SIZE)
  /\ [](\A i, j \in 1..Len(cache) : cache[i].eventId = cache[j].eventId => i = j)
  /\ [][Len(cache') <= Len(cache) + 1]_vars

\* the cache is full again after an insertion evicted its oldest record
C32_Witness ==
  /\ Len(cache) = MAX_CACHE_SIZE
  /\ \E x \in feed : acquired[x].evicted

\* the awaits that insert an invoice
InvoiceInsertPcs == {"sa_invoice", "pr_invoice", "ip_insert", "if_insert"}

\* C33: no two invoices of the Ledger have the same invoiceNumber; an insert
\* whose number (prefix, Date.now(), first 8 characters of the client id)
\* is that of an existing invoice is refused: the handler is answered 500
\* and the invoices stay as they were.
C33_InvoiceNumbersUnique ==
  /\ [](\A i, j \in 1..Len(invoices) :
          invoices[i].invoiceNumber = invoices[j].invoiceNumber => i = j)
  /\ [][\A t \in tasks \ tasks' :
          (t.pc \in InvoiceInsertPcs /\ faults' = faults /\ TaskAfter(t) = {}) =>
             /\ invoices' = invoices
             /\ lastResp'.req = t.req /\ lastResp'.code = 500 /\ lastResp'.path = t.pc
             /\ \E i \in 1..Len(invoices) :
                  /\ invoices[i].invoiceNumber[2] = t.ts
                  /\ invoices[i].invoiceNumber[3] = Prefix8(invoices[i].clientId)]_vars

\* two recurring charges of one subscription were handled in the same
\* millisecond: the second insert was refused, with no fault injected
C33_Witness ==
  /\ faults = 0 /\ lastResp.code = 500 /\ lastResp.path = "ip_insert"
  /\ \E i \in 1..Len(invoices) : invoices[i].invoiceNumber[1] = "INV-REC"

\* invoices of two kinds for one client carry the same millisecond
C33_WitnessSameMillisecond ==
  \E i, j \in 1..Len(invoices) :
    /\ i # j /\ invoices[i].clientId = invoices[j].clientId
    /\ invoices[i].invoiceNumber[2] = invoices[j].invoiceNumber[2]
    /\ invoices[i].invoiceNumber[1] # invoices[j].invoiceNumber[1]

\* C34: no two rows of client_subscriptions have the same
\* stripeSubscriptionId.  An insert of an id that has a row leaves the rows
\* as they were: in handleStorageAddonPurchase it is answered 500, in
\* createSubscriptionRecord it is caught and the handler goes on.
C34_SubscriptionIdentity ==
  /\ [](\A i, j \in 1..Len(subs) :
          subs[i].stripeSubscriptionId = subs[j].stripeSubscriptionId => i = j)
  /\ [][\A t \in tasks \ tasks' :
          (t.pc \in {"sa_sub", "cs_insert"}
             /\ SubsByStripeId(SessionOf(t.ev).subscription) # {}) =>
            /\ subs' = subs
            /\ t.pc = "sa_sub" =>
                 /\ TaskAfter(t) = {}
                 /\ lastResp'.req = t.req /\ lastResp'.code = 500
            /\ t.pc = "cs_insert" => TaskAfter(t) # {} /\ lastResp' = lastResp]_vars

\* the storage add-on checkout was delivered again after its dedup record
\* expired: the second insert of its subscription id was refused, no fault
\* injected
C34_Witness ==
  /\ faults = 0 /\ lastResp.ev = "evt_sto" /\ lastResp.code = 500
  /\ lastResp.path = "sa_sub"
  /\ Cardinality(SubsByStripeId("sub_sto")) = 1

\* C35 as stated: at no time are two handlers of one event id in progress,
\* whatever deliveries, failures and passing of time come between.
C35_AsStated ==
  \A t1, t2 \in tasks : t1.ev = t2.ev => t1 = t2

\* C36 as stated: an invoice whose status is paid keeps that status in
\* every later step.
C36_AsStated ==
  [][\A i \in 1..Len(invoices) :
       invoices[i].status = "paid" => invoices'[i].status = "paid"]_vars

\* the paid invoice of the signed-in client's checkout was set to failed by
\* a payment_intent.payment_failed handled after it, and to cancelled by a
\* checkout.session.expired handled after it
C36_PaidThenFailed ==
  /\ "evt_old" \in handled /\ "evt_pif" \in handled /\ lastResp.ev = "evt_pif"
  /\ Len(invoices) >= 1
  /\ invoices[1].status = "failed" /\ invoices[1].paidAt # NoTime /\ faults = 0
C36_PaidThenCancelled ==
  /\ "evt_old" \in handled /\ "evt_exp" \in handled /\ lastResp.ev = "evt_exp"
  /\ Len(invoices) >= 1
  /\ invoices[1].status = "cancelled" /\ invoices[1].paidAt # NoTime /\ faults = 0

\* the subscription ids whose customer.subscription.deleted has been handled
DeletedProcessed ==
  {Event(e).object.subscription :
     e \in {x \in handled : Event(x).type = "customer.subscription.deleted"}}

\* C37 as stated: once customer.subscription.deleted has been handled for a
\* subscription and its row is cancelled, no later step changes the status.
C37_AsStated ==
  [][\A i \in 1..Len(subs) :
       (subs[i].stripeSubscriptionId \in DeletedProcessed /\ subs[i].status = "cancelled") =>
          subs'[i].status = "cancelled"]_vars

\* invoice.payment_failed was handled to its end after the deletion of the
\* subscription: the row that was cancelled is past_due
C37_DeletedThenFailed ==
  /\ "evt_delw" \in handled /\ lastResp.ev = "evt_ipf" /\ lastResp.path = "if_notify"
  /\ tasks = {} /\ faults = 0
  /\ \E i \in SubsByStripeId("sub_web") :
       subs[i].status = "past_due" /\ subs[i].cancelledAt # NoTime

\* the pairs of a handled failed and a handled paid recurring invoice event
\* of one subscription and one payment intent
DunningPairs ==
  {p \in handled \X handled :
     /\ Event(p[1]).type = "invoice.payment_failed" /\ Event(p[2]).type = "invoice.paid"
     /\ Event(p[1]).object.subscription # ""
     /\ Event(p[1]).object.subscription = Event(p[2]).object.subscription
     /\ Event(p[1]).object.payment_intent = Event(p[2]).object.payment_intent
     /\ ~isInitialPayment(Event(p[2]).object)}

\* C38 as stated: when invoice.payment_failed and then invoice.paid of one
\* known subscription and one payment intent have both been handled and
\* nothing is in progress, the subscription is active with the period of the
\* paid event and the payment intent has exactly one paid invoice.
C38_AsStated ==
  \A p \in DunningPairs :
    (/\ tasks = {}
     /\ lastResp.ev = p[2] /\ lastResp.code = 200 /\ ~lastResp.duplicate
     /\ lastResp.path # "ip_nosubscriptionrow") =>
       /\ \A i \in SubsByStripeId(Event(p[2]).object.subscription) :
            /\ subs[i].status = "active"
            /\ subs[i].currentPeriodEnd = Event(p[2]).object.current_period_end * 1000
       /\ Cardinality({i \in InvoicesByPaymentIntent(Event(p[2]).object.payment_intent) :
                          invoices[i].status = "paid"}) = 1

\* the paid event found the failed invoice of its payment intent and
\* stopped: no paid invoice, the subscription still past_due
C38_PaidSkipped ==
  /\ "evt_ipf" \in handled /\ lastResp.ev = "evt_ipr" /\ lastResp.path = "ip_existing"
  /\ tasks = {} /\ faults = 0 /\ nDeliv = 3
  /\ \A i \in InvoicesByPaymentIntent("pi_r") : invoices[i].status = "failed"
  /\ \E i \in SubsByStripeId("sub_web") : subs[i].status = "past_due"

\* the paid event was handled first and the failed one after it
C38_PaidFirst ==
  /\ "evt_ipf" \in handled /\ "evt_ipr" \in handled /\ lastResp.ev = "evt_ipf"
  /\ tasks = {} /\ faults = 0
  /\ \E i \in InvoicesByPaymentIntent("pi_r") : invoices[i].status = "paid"

\* the limits that a purchase and a cancellation leave when one handler
\* runs after the other, from the limit lim
SerialLimits(lim, purchase, cancellation) ==
  {newLimit(lim + storageBytesToAdd(purchase), storageBytesToRemove(cancellation)),
   newLimit(lim, storageBytesToRemove(cancellation)) + storageBytesToAdd(purchase)}

\* C39 as stated: for a client with a quota row, when the purchase of one
\* storage add-on and the cancellation of another have each been handled
\* once, with no failing call, the limit is one that the two handlers leave
\* when run one after the other.
C39_AsStated ==
  ({"evt_sto", "evt_del0"} \subseteq handled /\ tasks = {} /\ faults = 0 /\ nDeliv = 2) =>
     \E q \in InitQuotaRows \ {NoQuota} :
        quotas[CLIENT].storageLimitBytes
           \in SerialLimits(q.storageLimitBytes, "evt_sto", "evt_del0")

\* the purchase's increment fell between the cancellation's select and its
\* update: the limit is the base allotment, one add-on less than after
\* either order
C39_LostIncrement ==
  /\ {"evt_sto", "evt_del0"} \subseteq handled /\ tasks = {} /\ faults = 0 /\ nDeliv = 2
  /\ quotas[CLIENT].storageLimitBytes = baseStorageBytes

\* the handlers ran one after the other
C39_Serial ==
  /\ {"evt_sto", "evt_del0"} \subseteq handled /\ tasks = {} /\ faults = 0 /\ nDeliv = 2
  /\ quotas[CLIENT].storageLimitBytes = 6 * GB

\* C40 as stated: whenever the event was answered 500, a later delivery of
\* it is handled to completion.
C40_AsStated ==
  (lastResp.code = 500) ~> (handled = feed)

\* the registration whose handler failed after the insert of the user: the
\* retry is refused at the insert of the same email, with no call failing
C40_Stuck ==
  /\ feed = {"evt_new"} /\ lastResp.code = 500 /\ lastResp.path = "pr_user"
  /\ faults = MaxFaults /\ nDeliv = MaxDeliveries /\ tasks = {}
  /\ EmailTaken("new@example.com") /\ handled = {}

\* a retry that was handled to completion after a failed delivery
C40_Recovered ==
  /\ handled = feed /\ lastResp.code = 200 /\ lastResp.req > 1 /\ faults = MaxFaults

\* once the user of the registration exists and the event is not handled,
\* it never will be
C40_StuckForever ==
  [][(feed = {"evt_new"} /\ EmailTaken("new@example.com") /\ tasks = {} /\ handled = {})
       => (handled' = {} /\ (tasks' = {} \/ \A t \in tasks' : t.pc = "pr_user"))]_vars

====
